---- MODULE Spec2Model ----
(***************************************************************************)
(* A model of the classic-wallpaper Rust crates (src/rust/src and          *)
(* src/rust/desktopwallpaper/src): the raster image store, the two         *)
(* ditherers, the bilinear sampler and the wallpaper group functions.      *)
(*                                                                         *)
(* State: the image an operation works on (`image`), the image as it was   *)
(* before that operation (`prev`), and the record of the call made         *)
(* (`call`: the function, its arguments, what it returned, whether it      *)
(* panicked).  Each public function of the source is one action; the       *)
(* function itself is an operator of the same name as in the source.       *)
(*                                                                         *)
(* f64 values are modelled as exact rationals with a fixed denominator     *)
(* (see Unit and SampleDen); on the dyadic points of the grids the f64     *)
(* arithmetic of the source is exact as well.                              *)
(***************************************************************************)
EXTENDS Integers, Sequences, FiniteSets, TLC

VARIABLES image, prev, call

vars == <<image, prev, call>>

\* ------------------------------------------------------------------------
\* Helpers

Min(a, b) == IF a < b THEN a ELSE b

Max(a, b) == IF a > b THEN a ELSE b

\* f64::clamp / i32::clamp
Clamp(v, lo, hi) == IF v < lo THEN lo ELSE IF v > hi THEN hi ELSE v

\* ------------------------------------------------------------------------
\* BasicRgbImageData (basicrgbimage.rs): width, height and a flat byte
\* vector `data` of width*height*3 bytes, indexed from 0.

\* vec![0; width * height * 3]
BasicRgbImageData_new(width, height) ==
  [width |-> width, height |-> height,
   data |-> [k \in 0 .. (width * height * 3 - 1) |-> 0]]

DataLen(img) == img.width * img.height * 3

\* ((y * self.width + x) * 3): the index of the pixel's red byte
PixelIndex(img, x, y) == (y * img.width + x) * 3

\* self.data[us] panics exactly when us is not an index of the vector
get_pixel_panics(img, x, y) == PixelIndex(img, x, y) + 2 >= DataLen(img)

get_pixel(img, x, y) ==
  LET us == PixelIndex(img, x, y)
  IN  <<img.data[us], img.data[us + 1], img.data[us + 2]>>

put_pixel(img, x, y, pixel) ==
  LET us == PixelIndex(img, x, y)
  IN  [img EXCEPT !.data =
         [k \in DOMAIN img.data |->
            IF k = us THEN pixel[1]
            ELSE IF k = us + 1 THEN pixel[2]
            ELSE IF k = us + 2 THEN pixel[3]
            ELSE img.data[k]]]

\* The image whose pixel (x,y) is pix[x, y] (row-major, 3 bytes per pixel)
ImageOf(width, height, pix) ==
  [width |-> width, height |-> height,
   data |-> [k \in 0 .. (width * height * 3 - 1) |->
               pix[(k \div 3) % width, (k \div 3) \div width][(k % 3) + 1]]]

\* blankimage(width, height, color) of main.rs: every pixel is `color`
blankimage(width, height, color) ==
  ImageOf(width, height,
          [x \in 0 .. (width - 1), y \in 0 .. (height - 1) |-> color])

NoImage == BasicRgbImageData_new(0, 0)

\* ------------------------------------------------------------------------
\* Specification SpecPixel: get_pixel and put_pixel on a small image, at
\* coordinates inside and outside the image.

MaxPW == 2
MaxPH == 2
MaxCoord == 3

PixelColours == {<<0, 0, 0>>, <<10, 20, 30>>}

PixelImages ==
  UNION {
    { [width |-> w, height |-> h, data |-> d] :
        d \in { [k \in 0 .. (w * h * 3 - 1) |-> p[k \div 3][(k % 3) + 1]] :
                  p \in [0 .. (w * h - 1) -> PixelColours] } } :
    w \in 0 .. MaxPW, h \in 0 .. MaxPH }

InitPixel ==
  /\ image \in PixelImages
  /\ prev = image
  /\ call = [op |-> "none", panicked |-> FALSE]

GetPixel(x, y) ==
  /\ ~call.panicked
  /\ prev' = image
  /\ image' = image
  /\ call' = IF get_pixel_panics(image, x, y)
             THEN [op |-> "get_pixel", x |-> x, y |-> y, panicked |-> TRUE]
             ELSE [op |-> "get_pixel", x |-> x, y |-> y, panicked |-> FALSE,
                   ret |-> get_pixel(image, x, y)]

PutPixel(x, y, pixel) ==
  /\ ~call.panicked
  /\ prev' = image
  /\ image' = IF get_pixel_panics(image, x, y) THEN image
              ELSE put_pixel(image, x, y, pixel)
  /\ call' = [op |-> "put_pixel", x |-> x, y |-> y, pixel |-> pixel,
              panicked |-> get_pixel_panics(image, x, y)]

NextPixel ==
  \/ \E x \in 0 .. MaxCoord, y \in 0 .. MaxCoord : GetPixel(x, y)
  \/ \E x \in 0 .. MaxCoord, y \in 0 .. MaxCoord, c \in PixelColours :
       PutPixel(x, y, c)

SpecPixel == InitPixel /\ [][NextPixel]_vars

\* C4: get_pixel(x,y) and put_pixel(x,y,c) panic whenever x >= width or
\* y >= height; an out-of-bounds coordinate never reaches the storage of an
\* in-bounds pixel.
C4_OutOfBoundsPanics ==
  (call.op \in {"get_pixel", "put_pixel"}
     /\ (call.x >= prev.width \/ call.y >= prev.height))
  => call.panicked

\* ------------------------------------------------------------------------
\* Wallpaper group functions (imageop.rs).  A coordinate in [0,1] is the
\* integer number of 1/Unit steps: One stands for 1.0 and Half for 0.5.
\* The points fed to the functions are the multiples of 4 steps, at which
\* every division the functions make (by 2 and by 4) is exact.

GridN == 4

Unit == 24 * GridN

One == Unit

Half == Unit \div 2

GridPoints == { 4 * k : k \in 0 .. (Unit \div 4) }

pmm_nomirror(x, y) == <<x * 2, y * 2>>

pmm_xonly(x, y) ==
  IF x > Half
  THEN IF y < Half
       THEN <<(Half - (x - Half)) * 2, y * 2>>
       ELSE <<(Half - (x - Half)) * 2, (y - Half) * 2>>
  ELSE IF y < Half
       THEN <<x * 2, y * 2>>
       ELSE <<x * 2, (y - Half) * 2>>

pmm_translate(x, y) ==
  IF x > Half
  THEN IF y < Half
       THEN <<(x - Half) * 2, y * 2>>
       ELSE <<(x - Half) * 2, (y - Half) * 2>>
  ELSE IF y < Half
       THEN <<x * 2, y * 2>>
       ELSE <<x * 2, (y - Half) * 2>>

pmm(x, y) ==
  IF x > Half
  THEN IF y < Half
       THEN <<(Half - (x - Half)) * 2, y * 2>>
       ELSE <<(Half - (x - Half)) * 2, (Half - (y - Half)) * 2>>
  ELSE IF y < Half
       THEN <<x * 2, y * 2>>
       ELSE <<x * 2, (Half - (y - Half)) * 2>>

p4m(x, y) ==
  LET r == pmm(x, y)
      rx == r[1]
      ry == r[2]
  IN  IF rx + (One - ry) > One THEN <<ry, rx>> ELSE <<rx, ry>>

p4malt(x, y) ==
  LET r == pmm(x, y)
      rx == r[1]
      ry == r[2]
  IN  IF ry + (One - rx) < One THEN <<ry, rx>> ELSE <<rx, ry>>

\* p4malt of the older copy in main.rs
p4malt_main(x, y) ==
  LET r == pmm(x, y)
      rx == r[1]
      ry == r[2]
  IN  IF rx + (One - ry) < One THEN <<ry, rx>> ELSE <<rx, ry>>

\* The classification with xarea = floor(6 x), without min(5, ...)
p3m1_area_nomin(x, y) ==
  LET xx == x * 6
      xarea == xx \div One
      xpos == xx - xarea * One
      yarea == IF y < Half THEN 0 ELSE 1
      ypos == IF y < Half THEN y * 2 ELSE (y - Half) * 2
      isdiag1 == (xarea + yarea) % 2 = 0
      left_half == IF isdiag1 THEN (xpos + ypos) < One
                   ELSE (xpos + (One - ypos)) < One
  IN  <<xarea, yarea, left_half, xpos, ypos>>

\* The classification at the head of p3m1: <<xarea, yarea, left_half, xpos, ypos>>
p3m1_area(x, y) ==
  LET xx == x * 6
      xarea == Min(5, xx \div One)
      xpos == xx - xarea * One
      yarea == IF y < Half THEN 0 ELSE 1
      ypos == IF y < Half THEN y * 2 ELSE (y - Half) * 2
      isdiag1 == (xarea + yarea) % 2 = 0
      left_half == IF isdiag1 THEN (xpos + ypos) < One
                   ELSE (xpos + (One - ypos)) < One
  IN  <<xarea, yarea, left_half, xpos, ypos>>

p3m1_foldA_sign(xp, yp) ==
  <<Clamp(((0 - xp) \div 2) + ((3 * yp) \div 4) + One, 0, One),
    Clamp((0 - xp) + (yp \div 2) + One, 0, One)>>

\* newx = -xp/2 - 3*yp/4 + 1, newy = -xp + yp/2 + 1, each clamped to [0,1]
p3m1_foldA(xp, yp) ==
  <<Clamp(((0 - xp) \div 2) - ((3 * yp) \div 4) + One, 0, One),
    Clamp((0 - xp) + (yp \div 2) + One, 0, One)>>

\* newx = -xp/2 + 3*yp/4 + 0.5, newy = xp + yp/2, each clamped to [0,1]
p3m1_foldB(xp, yp) ==
  <<Clamp(((0 - xp) \div 2) + ((3 * yp) \div 4) + Half, 0, One),
    Clamp(xp + (yp \div 2), 0, One)>>

p3m1(x, y) ==
  LET a == p3m1_area(x, y)
      key == <<a[1], a[2], a[3]>>
      xpos == a[4]
      ypos == a[5]
  IN  CASE key \in {<<1, 1, FALSE>>, <<4, 0, FALSE>>} -> <<xpos \div 2, ypos>>
        [] key \in {<<2, 1, TRUE>>, <<5, 0, TRUE>>} -> <<(xpos \div 2) + Half, ypos>>
        [] key \in {<<1, 0, FALSE>>, <<4, 1, FALSE>>} -> <<xpos \div 2, One - ypos>>
        [] key \in {<<2, 0, TRUE>>, <<5, 1, TRUE>>} ->
             <<(xpos \div 2) + Half, One - ypos>>
        [] key \in {<<0, 1, FALSE>>, <<3, 0, FALSE>>} ->
             p3m1_foldA(xpos \div 2, ypos)
        [] key \in {<<1, 1, TRUE>>, <<4, 0, TRUE>>} ->
             p3m1_foldA((xpos \div 2) + Half, ypos)
        [] key \in {<<0, 0, FALSE>>, <<3, 1, FALSE>>} ->
             p3m1_foldA(xpos \div 2, One - ypos)
        [] key \in {<<1, 0, TRUE>>, <<4, 1, TRUE>>} ->
             p3m1_foldA((xpos \div 2) + Half, One - ypos)
        [] key \in {<<2, 1, FALSE>>, <<5, 0, FALSE>>} ->
             p3m1_foldB(xpos \div 2, ypos)
        [] key \in {<<3, 1, TRUE>>, <<0, 0, TRUE>>} ->
             p3m1_foldB((xpos \div 2) + Half, ypos)
        [] key \in {<<2, 0, FALSE>>, <<5, 1, FALSE>>} ->
             p3m1_foldB(xpos \div 2, One - ypos)
        [] key \in {<<3, 0, TRUE>>, <<0, 1, TRUE>>} ->
             p3m1_foldB((xpos \div 2) + Half, One - ypos)
        [] OTHER -> <<0, 0>>

p6m(x, y) ==
  LET r == p3m1(x, y)
  IN  IF r[1] > Half THEN <<One - r[1], r[2]>> ELSE r

p6malt(x, y) ==
  LET r == p3m1(x, y)
  IN  IF r[1] < Half THEN <<One - r[1], r[2]>> ELSE r

p3m1alt1(x, y) ==
  LET r == p3m1(y, One - x) IN <<One - r[2], r[1]>>

p3m1alt2(x, y) ==
  LET r == p3m1(y, x) IN <<r[2], r[1]>>

p6malt1a(x, y) ==
  LET r == p3m1alt1(x, y)
  IN  IF r[2] > Half THEN <<r[1], One - r[2]>> ELSE r

p6malt1b(x, y) ==
  LET r == p3m1alt1(x, y)
  IN  IF r[2] < Half THEN <<r[1], One - r[2]>> ELSE r

p6malt2a(x, y) ==
  LET r == p3m1alt2(x, y)
  IN  IF r[2] > Half THEN <<r[1], One - r[2]>> ELSE r

p6malt2b(x, y) ==
  LET r == p3m1alt2(x, y)
  IN  IF r[2] < Half THEN <<r[1], One - r[2]>> ELSE r

\* The twelve functions wallpaper_image's documentation lists
GroupNames ==
  {"pmm", "p4m", "p4malt", "p3m1", "p6m", "p6malt", "p3m1alt1", "p3m1alt2",
   "p6malt1a", "p6malt1b", "p6malt2a", "p6malt2b"}

\* group_func(x, y) for the function of the given name
group_func(name, x, y) ==
  CASE name = "pmm" -> pmm(x, y)
    [] name = "p4m" -> p4m(x, y)
    [] name = "p4malt" -> p4malt(x, y)
    [] name = "p3m1" -> p3m1(x, y)
    [] name = "p6m" -> p6m(x, y)
    [] name = "p6malt" -> p6malt(x, y)
    [] name = "p3m1alt1" -> p3m1alt1(x, y)
    [] name = "p3m1alt2" -> p3m1alt2(x, y)
    [] name = "p6malt1a" -> p6malt1a(x, y)
    [] name = "p6malt1b" -> p6malt1b(x, y)
    [] name = "p6malt2a" -> p6malt2a(x, y)
    [] name = "p6malt2b" -> p6malt2b(x, y)

\* ------------------------------------------------------------------------
\* Specification SpecGroup: a point of the unit square is drawn from the
\* grid and one of the twelve group functions is applied to it.

InitGroup ==
  /\ image = NoImage
  /\ prev = NoImage
  /\ \E x \in GridPoints, y \in GridPoints :
       call = [op |-> "point", x |-> x, y |-> y, panicked |-> FALSE]

ApplyGroup(name) ==
  /\ call.op = "point"
  /\ call' = [op |-> name, x |-> call.x, y |-> call.y, panicked |-> FALSE,
              ret |-> group_func(name, call.x, call.y)]
  /\ UNCHANGED <<image, prev>>

Pmm == ApplyGroup("pmm")

P4m == ApplyGroup("p4m")

P4malt == ApplyGroup("p4malt")

P3m1 == ApplyGroup("p3m1")

P6m == ApplyGroup("p6m")

P6malt == ApplyGroup("p6malt")

P3m1alt1 == ApplyGroup("p3m1alt1")

P3m1alt2 == ApplyGroup("p3m1alt2")

P6malt1a == ApplyGroup("p6malt1a")

P6malt1b == ApplyGroup("p6malt1b")

P6malt2a == ApplyGroup("p6malt2a")

P6malt2b == ApplyGroup("p6malt2b")

NextGroup ==
  \/ Pmm \/ P4m \/ P4malt \/ P3m1 \/ P6m \/ P6malt
  \/ P3m1alt1 \/ P3m1alt2 \/ P6malt1a \/ P6malt1b \/ P6malt2a \/ P6malt2b

SpecGroup == InitGroup /\ [][NextGroup]_vars

Applied == call.op \in GroupNames

\* C5: for each of the twelve group functions and every (x,y) in the unit
\* square, both components of f(x,y) lie in [0,1].
C5_OutputInUnitSquare ==
  Applied => (call.ret[1] \in 0 .. One /\ call.ret[2] \in 0 .. One)

\* C5 witness: pmm applied at the centre of the square, where both
\* components of the result reach the bound 1.
C5_Witness ==
  call.op = "pmm" /\ call.x = Half /\ call.y = Half /\ call.ret = <<One, One>>

\* C6: each group function is seamless at the tile edges: f(0,t) = f(1,t)
\* and f(t,0) = f(t,1) for every t in [0,1].
C6_SeamlessEdges ==
  Applied =>
    /\ (call.x = 0 => call.ret = group_func(call.op, One, call.y))
    /\ (call.y = 0 => call.ret = group_func(call.op, call.x, One))

\* C6 witness: p3m1alt1 applied on the left edge, away from the corners.
C6_Witness ==
  call.op = "p3m1alt1" /\ call.x = 0 /\ call.y = 8 /\ call.ret # <<0, 0>>

C8_P4mTriangles ==
  LET r == pmm(call.x, call.y)
      rx == r[1]
      ry == r[2]
  IN  /\ call.op = "p4m" =>
           /\ call.ret = IF rx + (One - ry) > One THEN <<ry, rx>> ELSE <<rx, ry>>
           /\ call.ret[1] <= call.ret[2]
      /\ call.op = "p4malt" =>
           /\ call.ret = IF rx + (One - ry) < One THEN <<ry, rx>> ELSE <<rx, ry>>
           /\ call.ret[1] >= call.ret[2]

\* Absolute value
Abs(v) == IF v < 0 THEN 0 - v ELSE v

DITHER_MATRIX ==
  << 0, 32,  8, 40,  2, 34, 10, 42,
    48, 16, 56, 24, 50, 18, 58, 26,
    12, 44,  4, 36, 14, 46,  6, 38,
    60, 28, 52, 20, 62, 30, 54, 22,
     3, 35, 11, 43,  1, 33,  9, 41,
    51, 19, 59, 27, 49, 17, 57, 25,
    15, 47,  7, 39, 13, 45,  5, 37,
    63, 31, 55, 23, 61, 29, 53, 21>>

\* DITHER_MATRIX[((y & 7) * 8 + (x & 7)) as usize]
bdither_at(x, y) == DITHER_MATRIX[((y % 8) * 8 + (x % 8)) + 1]

\* `v as u8`: the low 8 bits
AsU8(v) == v % 256

websafe_channel_next(v, bdither) ==
  LET cm == v % 51
  IN  IF bdither < ((cm + 1) * 64) \div 51 THEN (v - cm) + 51 ELSE v - cm

websafe_channel_le(v, bdither) ==
  LET cm == v % 51
  IN  IF bdither <= (cm * 64) \div 51 THEN (v - cm) + 51 ELSE v - cm

\* One channel: cm = v % 51, rounded up to the next multiple of 51 when
\* bdither < cm * 64 / 51 and down otherwise
websafe_channel(v, bdither) ==
  LET cm == v % 51
  IN  IF bdither < (cm * 64) \div 51 THEN (v - cm) + 51 ELSE v - cm

vga_kept_nosilver(rc) ==
  LET c0 == rc[1]
  IN  /\ c0 # 192
      /\ (c0 = 128 \/ c0 = 0)
      /\ (rc[2] = 0 \/ rc[2] = 128)
      /\ (rc[3] = 0 \/ rc[3] = 128)

\* The include_vga test: TRUE when the loop body takes `continue`
vga_kept(rc) ==
  LET c0 == rc[1]
  IN  IF c0 = 192
      THEN rc[2] = 192 /\ rc[3] = 192
      ELSE /\ (c0 = 128 \/ c0 = 0)
           /\ (rc[2] = 0 \/ rc[2] = 128)
           /\ (rc[3] = 0 \/ rc[3] = 128)

\* The loop body for pixel (x,y) holding rc: the pixel it leaves there
websafe_pixel(rc, x, y, include_vga) ==
  IF include_vga /\ vga_kept(rc)
  THEN rc
  ELSE LET bdither == bdither_at(x, y)
       IN  <<AsU8(websafe_channel(rc[1], bdither)),
             AsU8(websafe_channel(rc[2], bdither)),
             AsU8(websafe_channel(rc[3], bdither))>>

\* The loops visit every pixel once, and each iteration reads and writes
\* its own pixel only (get_pixel(x, y), then put_pixel(x, y, ...))
websafedither(img, include_vga) ==
  ImageOf(img.width, img.height,
          [x \in 0 .. (img.width - 1), y \in 0 .. (img.height - 1) |->
             websafe_pixel(get_pixel(img, x, y), x, y, include_vga)])

\* ------------------------------------------------------------------------
\* Specification SpecWebsafe: websafedither on (a) 8 x 8 ramps, in which
\* every channel takes every value 0..255 at every position of the dither
\* matrix, (b) 8 x 8 images of one VGA colour, and (c) two-colour
\* checkerboards of up to MaxWW x MaxWH pixels (wider than the matrix).

MaxWW == 9
MaxWH == 2

\* The side of the dither matrix
Tile == 8

\* The 8 VGA colours that are not in the safety palette
VgaColours ==
  {<<192, 192, 192>>, <<128, 0, 0>>, <<0, 128, 0>>, <<128, 128, 0>>,
   <<0, 0, 128>>, <<128, 0, 128>>, <<0, 128, 128>>, <<128, 128, 128>>}

WebSafeLevels == {0, 51, 102, 153, 204, 255}

\* Pixel (x,y) holds <<v, v + 85, 255 - v>> (mod 256) with v = s + 8y + x
ramp(s) ==
  ImageOf(Tile, Tile,
          [x \in 0 .. (Tile - 1), y \in 0 .. (Tile - 1) |->
             LET v == (s + y * Tile + x) % 256
             IN  <<v, (v + 85) % 256, 255 - v>>])

MixColours ==
  {<<192, 192, 192>>, <<128, 0, 128>>, <<254, 50, 1>>, <<192, 192, 128>>}

\* The image borderedbox draws over a whole image: color1 where x and y have
\* the same parity, color2 elsewhere
checkerboard(width, height, color1, color2) ==
  ImageOf(width, height,
          [x \in 0 .. (width - 1), y \in 0 .. (height - 1) |->
             IF y % 2 = x % 2 THEN color1 ELSE color2])

WebsafeImages ==
  { ramp(s) : s \in 0 .. 255 }
  \cup
  { blankimage(Tile, Tile, c) : c \in VgaColours }
  \cup
  { checkerboard(w, h, c[1], c[2]) :
      w \in 0 .. MaxWW, h \in 0 .. MaxWH, c \in MixColours \X MixColours }

InitWebsafe ==
  /\ image \in WebsafeImages
  /\ prev = image
  /\ call = [op |-> "none", panicked |-> FALSE]

WebsafeDither(include_vga) ==
  /\ prev' = image
  /\ image' = websafedither(image, include_vga)
  /\ call' = [op |-> "websafedither", include_vga |-> include_vga,
              panicked |-> FALSE]

NextWebsafe == \E include_vga \in BOOLEAN : WebsafeDither(include_vga)

SpecWebsafe == InitWebsafe /\ [][NextWebsafe]_vars

\* The pixel positions of an image
Positions(img) == (0 .. (img.width - 1)) \X (0 .. (img.height - 1))

IsWebSafe(rc) == \A i \in 1 .. 3 : rc[i] \in WebSafeLevels

\* C2: after websafedither(image, false) every channel of every pixel is
\* one of 0, 51, 102, 153, 204, 255.
C2_WebSafeOnly ==
  (call.op = "websafedither" /\ ~call.include_vga) =>
    \A p \in Positions(image) : IsWebSafe(get_pixel(image, p[1], p[2]))

\* C2 witness: a pixel with a channel of 254 at (0,0), where the threshold
\* is 0, was rounded up to 255.
C2_Witness ==
  /\ call.op = "websafedither" /\ ~call.include_vga
  /\ image.width = Tile /\ image.height = Tile
  /\ get_pixel(prev, 0, 0)[1] = 254
  /\ get_pixel(image, 0, 0)[1] = 255

\* C3: after websafedither(image, true) every pixel that held one of the 8
\* VGA colours is unchanged, and every other pixel has each channel in
\* 0, 51, 102, 153, 204, 255.
C3_VgaKept ==
  (call.op = "websafedither" /\ call.include_vga) =>
    \A p \in Positions(image) :
      IF get_pixel(prev, p[1], p[2]) \in VgaColours
      THEN get_pixel(image, p[1], p[2]) = get_pixel(prev, p[1], p[2])
      ELSE IsWebSafe(get_pixel(image, p[1], p[2]))

\* C3 witness: a checkerboard of silver and a colour that is neither VGA nor
\* web-safe was dithered: the silver pixel stayed, the other one changed.
C3_Witness ==
  /\ call.op = "websafedither" /\ call.include_vga
  /\ image.width >= 2 /\ image.height >= 1
  /\ get_pixel(prev, 0, 0) = <<192, 192, 192>>
  /\ get_pixel(image, 0, 0) = <<192, 192, 192>>
  /\ get_pixel(prev, 1, 0) = <<192, 192, 128>>
  /\ get_pixel(image, 1, 0) # get_pixel(prev, 1, 0)

\* ------------------------------------------------------------------------
\* floyd_steinberg_dither (imageop.rs): error diffusion to a palette.
\* A palette is a sequence of colours; palette[i + 1] is the source's
\* palette[i].

classiccolors ==
  << <<0, 0, 0>>, <<128, 128, 128>>, <<192, 192, 192>>, <<255, 0, 0>>,
     <<128, 0, 0>>, <<0, 255, 0>>, <<0, 128, 0>>, <<0, 0, 255>>,
     <<0, 0, 128>>, <<255, 0, 255>>, <<128, 0, 128>>, <<0, 255, 255>>,
     <<0, 128, 128>>, <<255, 255, 0>>, <<128, 128, 0>>, <<255, 255, 255>> >>

\* dr * dr + dg * dg + db * db
rgb_dist(color, r, g, b) ==
  (r - color[1]) * (r - color[1]) + (g - color[2]) * (g - color[2])
    + (b - color[3]) * (b - color[3])

\* The loop with `dist <= best`: a later entry at the same distance wins
RECURSIVE nearest_loop_le(_, _, _, _, _, _, _)
nearest_loop_le(palette, r, g, b, i, best, ret) ==
  IF i >= Len(palette) THEN ret
  ELSE LET dist == rgb_dist(palette[i + 1], r, g, b)
       IN  IF i = 0 \/ dist <= best
           THEN IF dist = 0 THEN i
                ELSE nearest_loop_le(palette, r, g, b, i + 1, dist, i)
           ELSE nearest_loop_le(palette, r, g, b, i + 1, best, ret)

\* The loop of nearestrgb3 from index i on (0-based, as in the source)
RECURSIVE nearest_loop(_, _, _, _, _, _, _)
nearest_loop(palette, r, g, b, i, best, ret) ==
  IF i >= Len(palette) THEN ret
  ELSE LET dist == rgb_dist(palette[i + 1], r, g, b)
       IN  IF i = 0 \/ dist < best
           THEN IF dist = 0 THEN i
                ELSE nearest_loop(palette, r, g, b, i + 1, dist, i)
           ELSE nearest_loop(palette, r, g, b, i + 1, best, ret)

nearestrgb3(palette, r, g, b) == nearest_loop(palette, r, g, b, 0, 0, 0)

\* x >> 4 on an i32: the floor of x / 16
Shr4(x) == x \div 16

\* err[k] += v
AddAt(err, k, v) == [err EXCEPT ![k] = @ + v]

\* The first inner loop of row j: the current-row arrays take the carried
\* error plus the pixel's channels, and the next-row arrays are zeroed.
\* st is [img, err]; err has 6 * width entries: rerr1, rerr2, gerr1, gerr2,
\* berr1, berr2.
fs_load_row(st, j) ==
  LET w == st.img.width
  IN  [st EXCEPT !.err =
        [k \in DOMAIN st.err |->
           IF (k \div w) % 2 = 0
           THEN st.err[k + w] + get_pixel(st.img, k % w, j)[((k \div w) \div 2) + 1]
           ELSE 0]]

\* Clamp the accumulated value of column ui to [0,255], choose the nearest
\* palette colour and write it to pixel (ui, j)
fs_quantize(st, ui, j, palette) ==
  LET w == st.img.width
      e1 == [st.err EXCEPT ![ui] = Clamp(@, 0, 255),
                           ![2 * w + ui] = Clamp(@, 0, 255),
                           ![4 * w + ui] = Clamp(@, 0, 255)]
      idx == nearestrgb3(palette, AsU8(e1[ui]), AsU8(e1[2 * w + ui]),
                         AsU8(e1[4 * w + ui]))
  IN  [img |-> put_pixel(st.img, ui, j, palette[idx + 1]), err |-> e1,
       idx |-> idx]

\* The four additions that diffuse the residual e of column ui in the
\* arrays that start at a1 (current row) and a2 (next row)
fs_diffuse(err, a1, a2, ui, e) ==
  AddAt(AddAt(AddAt(AddAt(err, a1 + ui + 1, Shr4(e * 7)),
                    a2 + ui - 1, Shr4(e * 3)),
              a2 + ui, Shr4(e * 5)),
        a2 + ui + 1, Shr4(e))

\* One iteration of the second inner loop, for column i of row j
fs_step(st, i, j, palette) ==
  LET w == st.img.width
      q == fs_quantize(st, i, j, palette)
      chosen == palette[q.idx + 1]
      rerr == q.err[i] - chosen[1]
      gerr == q.err[2 * w + i] - chosen[2]
      berr == q.err[4 * w + i] - chosen[3]
      er == fs_diffuse(q.err, 0, w, i, rerr)
      eg == fs_diffuse(er, 2 * w, 3 * w, i, gerr)
      eb == fs_diffuse(eg, 4 * w, 5 * w, i, berr)
  IN  [img |-> q.img, err |-> eb]

\* for i in 0..(image.width() - 1), from column i on
RECURSIVE fs_columns(_, _, _, _)
fs_columns(st, i, j, palette) ==
  IF i >= st.img.width - 1 THEN st
  ELSE fs_columns(fs_step(st, i, j, palette), i + 1, j, palette)

\* The pixel written before and again after the column loop: column 0
fs_first(st, j, palette) ==
  LET q == fs_quantize(st, 0, j, palette)
  IN  [img |-> q.img, err |-> q.err]

fs_row(st, j, palette) ==
  fs_first(fs_columns(fs_first(fs_load_row(st, j), j, palette), 0, j, palette),
           j, palette)

\* for j in 0..image.height(), from row j on
RECURSIVE fs_rows(_, _, _)
fs_rows(st, j, palette) ==
  IF j >= st.img.height THEN st
  ELSE fs_rows(fs_row(st, j, palette), j + 1, palette)

\* palette[idx] with idx = 0 on an empty palette: index out of bounds, at
\* the first pixel written
\* The palette looked up before the size of the image is
floyd_panics_any(img, palette) == Len(palette) = 0

floyd_panics(img, palette) ==
  img.width # 0 /\ img.height # 0 /\ Len(palette) = 0

floyd_steinberg_dither(img, palette) ==
  IF img.width = 0 \/ img.height = 0 THEN img
  ELSE fs_rows([img |-> img, err |-> [k \in 0 .. (img.width * 6 - 1) |-> 0]],
               0, palette).img

\* ------------------------------------------------------------------------
\* Specification SpecFloyd: floyd_steinberg_dither on every image of up to
\* MaxFW x MaxFH pixels over two colours, with four palettes.

MaxFW == 3
MaxFH == 2

FloydColours == {<<100, 150, 200>>, <<255, 128, 64>>}

Palettes ==
  { << >>, << <<0, 0, 0>> >>, << <<0, 0, 0>>, <<255, 255, 255>> >>,
    classiccolors }

FloydImages ==
  UNION {
    { [width |-> w, height |-> h, data |-> d] :
        d \in { [k \in 0 .. (w * h * 3 - 1) |-> p[k \div 3][(k % 3) + 1]] :
                  p \in [0 .. (w * h - 1) -> FloydColours] } } :
    w \in 0 .. MaxFW, h \in 0 .. MaxFH }

InitFloyd ==
  /\ image \in FloydImages
  /\ prev = image
  /\ call = [op |-> "none", panicked |-> FALSE]

\* The dither is the last step made on an image (randomwallpaper of
\* main.rs): it is applied once to each image drawn
FloydSteinbergDither(palette) ==
  /\ call.op = "none"
  /\ prev' = image
  /\ image' = IF floyd_panics(image, palette) THEN image
              ELSE floyd_steinberg_dither(image, palette)
  /\ call' = [op |-> "floyd_steinberg_dither", palette |-> palette,
              panicked |-> floyd_panics(image, palette)]

NextFloyd == \E palette \in Palettes : FloydSteinbergDither(palette)

SpecFloyd == InitFloyd /\ [][NextFloyd]_vars

\* The colours of a palette
PaletteSet(palette) == { palette[i] : i \in 1 .. Len(palette) }

\* C1: after floyd_steinberg_dither(image, palette) with a non-empty palette
\* on an image with width >= 1 and height >= 1, every pixel equals some entry
\* of the palette.
C1_AllPixelsInPalette ==
  (call.op = "floyd_steinberg_dither" /\ Len(call.palette) > 0
     /\ image.width >= 1 /\ image.height >= 1) =>
    \A p \in Positions(image) :
      get_pixel(image, p[1], p[2]) \in PaletteSet(call.palette)

\* ------------------------------------------------------------------------
\* imagept (imageop.rs): bilinear sampling with wraparound.  A sample
\* coordinate is the rational xn / den, given by its numerator and the
\* common denominator den > 0.

\* The f64 remainder a % m for m > 0: it has the sign of the dividend a
\* (numerators over one denominator)
FRem(a, m) == IF a >= 0 THEN a % m ELSE 0 - ((0 - a) % m)

\* `f as u32` for a float without fraction: negative values saturate to 0
F64AsU32(i) == IF i < 0 THEN 0 ELSE i

\* _bilerp with tx = txn / den and ty = tyn / den: the numerator of the
\* result over den * den
bilerp(y0x0, y0x1, y1x0, y1x1, txn, tyn, den) ==
  LET y0 == y0x0 * den + (y0x1 - y0x0) * txn
      y1 == y1x0 * den + (y1x1 - y1x0) * txn
  IN  y0 * den + (y1 - y0) * tyn

imagept(img, xn, yn, den) ==
  IF img.width = 0 \/ img.height = 0 THEN <<0, 0, 0>>
  ELSE
    LET x == FRem(xn, img.width * den)
        y == FRem(yn, img.height * den)
        xifloat == x \div den
        yifloat == y \div den
        xi == F64AsU32(xifloat)
        xi1 == (xi + 1) % img.width
        yi == F64AsU32(yifloat)
        yi1 == (yi + 1) % img.height
        y0x0 == get_pixel(img, xi, yi)
        y0x1 == get_pixel(img, xi, yi1)
        y1x0 == get_pixel(img, xi1, yi)
        y1x1 == get_pixel(img, xi1, yi1)
    IN  [c \in 1 .. 3 |->
           AsU8(Clamp(bilerp(y0x0[c], y0x1[c], y1x0[c], y1x1[c],
                             x - xifloat * den, y - yifloat * den, den)
                        \div (den * den), 0, 255))]

\* ------------------------------------------------------------------------
\* Specification SpecSample: imagept on every image of up to
\* MaxSW x MaxSH pixels over two colours, at the points whose coordinates
\* are multiples of 1 / SampleDen between -MaxSX and MaxSX.

MaxSW == 2
MaxSH == 1
MaxSX == 3
SampleSub == 1

SampleDen == 2 * SampleSub

SampleColours == {<<0, 0, 0>>, <<255, 100, 10>>}

SampleImages ==
  UNION {
    { [width |-> w, height |-> h, data |-> d] :
        d \in { [k \in 0 .. (w * h * 3 - 1) |-> p[k \div 3][(k % 3) + 1]] :
                  p \in [0 .. (w * h - 1) -> SampleColours] } } :
    w \in 0 .. MaxSW, h \in 0 .. MaxSH }

SampleCoords == (0 - MaxSX * SampleDen) .. (MaxSX * SampleDen)

InitSample ==
  /\ image \in SampleImages
  /\ prev = image
  /\ call = [op |-> "none", panicked |-> FALSE]

Imagept(xn, yn) ==
  /\ prev' = image
  /\ image' = image
  /\ call' = [op |-> "imagept", x |-> xn, y |-> yn, den |-> SampleDen,
              panicked |-> FALSE, ret |-> imagept(image, xn, yn, SampleDen)]

NextSample == \E xn \in SampleCoords, yn \in SampleCoords : Imagept(xn, yn)

SpecSample == InitSample /\ [][NextSample]_vars

\* C10: for an image with positive width and height and any point (x,y),
\* negative coordinates included, imagept(image, x, y) =
\* imagept(image, x + k*width, y + m*height) for all integers k and m.
C10_ImageptPeriodic ==
  (call.op = "imagept" /\ image.width > 0 /\ image.height > 0) =>
    \A k \in -2 .. 2, m \in -2 .. 2 :
      call.ret = imagept(image, call.x + k * image.width * call.den,
                         call.y + m * image.height * call.den, call.den)

\* ------------------------------------------------------------------------
\* 32-bit words (imageop.rs, _min32 and _mod32).  i32 and u32 are modelled
\* as two's-complement words of WordBits bits: the casts and wrapping_abs
\* act on a word of any width as they do on a 32-bit one.

WordBits == 5

U32Modulus == 2 ^ WordBits

I32Min == 0 - 2 ^ (WordBits - 1)

I32Max == 2 ^ (WordBits - 1) - 1

U32Max == U32Modulus - 1

\* `a as u32`: the same bits read as an unsigned word
I32AsU32(a) == a % U32Modulus

\* `u as i32`: the same bits read as a signed word
U32AsI32(u) == IF u > I32Max THEN u - U32Modulus ELSE u

\* i32::wrapping_abs: the absolute value, except that i32::MIN stays
wrapping_abs(a) == IF a = I32Min THEN I32Min ELSE IF a < 0 THEN 0 - a ELSE a

\* _min32 without the comparison with b
min32_left(a, b) == a

_min32(a, b) ==
  IF a < 0 THEN a
  ELSE U32AsI32(Min(I32AsU32(wrapping_abs(a)), b))

\* au32 % b panics when b is 0
mod32_panics(a, b) == b = 0

\* The truncating remainder: the sign of a is dropped, the residue is not
\* taken from b
mod32_trunc(a, b) == I32AsU32(wrapping_abs(a)) % b

_mod32(a, b) ==
  IF a < 0
  THEN LET au32 == I32AsU32(wrapping_abs(a))
           ret == au32 % b
       IN  IF ret # 0 THEN b - ret ELSE ret
  ELSE LET au32 == a
       IN  au32 % b

\* ------------------------------------------------------------------------
\* borderedbox (imageop.rs).  `border` is << >> for None and <<c>> for
\* Some(c); `rect` is <<x0, y0, x1, y1>>.

\* The test of x alone
borderedbox_panics_x(rect) == rect[3] < rect[1]

\* if x1 < x0 || y1 < y0 { panic!() }
borderedbox_panics(rect) == rect[3] < rect[1] \/ rect[4] < rect[2]

EmptyRect == <<0, 0, 0, 0>>

\* The rectangle <<x0, y0, x1, y1>> the loops run over: empty after each of
\* the early returns, clamped to the image when wraparound is false
box_range(img, rect, wraparound) ==
  IF img.width = 0 \/ img.height = 0 THEN EmptyRect
  ELSE IF rect[1] = rect[3] \/ rect[2] = rect[4] THEN EmptyRect
  ELSE IF ~wraparound
  THEN LET x0 == Max(rect[1], 0)
           y0 == Max(rect[2], 0)
           x1 == _min32(rect[3], img.width)
           y1 == _min32(rect[4], img.height)
       IN  IF x0 >= x1 \/ y0 >= y1 THEN EmptyRect ELSE <<x0, y0, x1, y1>>
  ELSE rect

\* A border without its bottom edge
is_border_open(border, r, x, y) ==
  /\ border # << >>
  /\ (y = r[2] \/ x = r[1] \/ x = r[3] - 1)

is_border(border, r, x, y) ==
  /\ border # << >>
  /\ (y = r[2] \/ y = r[4] - 1 \/ x = r[1] \/ x = r[3] - 1)

\* The colour the loop body puts at (xp, ypp) when it is at (x, y)
box_colour(border, color1, color2, r, x, y, xp, ypp) ==
  IF is_border(border, r, x, y) THEN border[1]
  ELSE IF ypp % 2 = xp % 2 THEN color1
  ELSE color2

\* The pixels the loops call put_pixel on: every xp of the inner loop with
\* every ypp of the outer loop
box_written(img, r) ==
  { _mod32(x, img.width) : x \in r[1] .. (r[3] - 1) }
    \X { _mod32(y, img.height) : y \in r[2] .. (r[4] - 1) }

\* The last value v of the loop `for v in lo..hi` with _mod32(v, n) = p:
\* the loops run upwards, so the put_pixel made there is the one that stays
box_last(lo, hi, p, n) ==
  LET hits == { v \in lo .. (hi - 1) : _mod32(v, n) = p }
  IN  CHOOSE v \in hits : \A u \in hits : u <= v

\* Pixel (x, y) of a width x height image after the loops over r, `old`
\* being its colour before
box_pixel(width, height, border, color1, color2, r, x, y, old) ==
  IF /\ \E u \in r[1] .. (r[3] - 1) : _mod32(u, width) = x
     /\ \E v \in r[2] .. (r[4] - 1) : _mod32(v, height) = y
  THEN box_colour(border, color1, color2, r, box_last(r[1], r[3], x, width),
                  box_last(r[2], r[4], y, height), x, y)
  ELSE old

\* The image after the loops, the set of pixels written, and whether the
\* call panicked (in panic!() or in a put_pixel outside the store)
borderedbox(img, border, color1, color2, rect, wraparound) ==
  IF borderedbox_panics(rect)
  THEN [image |-> img, written |-> {}, panicked |-> TRUE]
  ELSE
    LET r == box_range(img, rect, wraparound)
        written == box_written(img, r)
        pix == [x \in 0 .. (img.width - 1), y \in 0 .. (img.height - 1) |->
                  box_pixel(img.width, img.height, border, color1, color2, r,
                            x, y, get_pixel(img, x, y))]
    IN  IF \E p \in written : get_pixel_panics(img, p[1], p[2])
        THEN [image |-> img, written |-> written, panicked |-> TRUE]
        ELSE [image |-> ImageOf(img.width, img.height, pix),
              written |-> written, panicked |-> FALSE]

\* ------------------------------------------------------------------------
\* Specification SpecBox: _min32 and _mod32 on every pair of words, and
\* borderedbox on a one-colour image MaxBW - 1 or MaxBW pixels wide and
\* MaxBH high, or of width or height 0, with and without border and
\* wraparound, on the rectangles whose coordinates are -1 .. MaxBox,
\* i32::MIN or i32::MAX.

MaxBW == 3
MaxBH == 3
MaxBox == 3

Background == <<9, 9, 9>>

BoxColor1 == <<1, 1, 1>>

BoxColor2 == <<2, 2, 2>>

BoxBorders == {<< >>, << <<3, 3, 3>> >>}

BoxCoords == {I32Min, I32Max} \cup (-1 .. MaxBox)

BoxRects == BoxCoords \X BoxCoords \X BoxCoords \X BoxCoords

InitBox ==
  /\ image \in { blankimage(w, h, Background) :
                   w \in {0, MaxBW - 1, MaxBW}, h \in {0, MaxBH} }
  /\ prev = image
  /\ call = [op |-> "none", panicked |-> FALSE]

Min32(a, b) ==
  /\ prev' = image
  /\ image' = image
  /\ call' = [op |-> "_min32", a |-> a, b |-> b, panicked |-> FALSE,
              ret |-> _min32(a, b)]

Mod32(a, b) ==
  /\ prev' = image
  /\ image' = image
  /\ call' = IF mod32_panics(a, b)
             THEN [op |-> "_mod32", a |-> a, b |-> b, panicked |-> TRUE]
             ELSE [op |-> "_mod32", a |-> a, b |-> b, panicked |-> FALSE,
                   ret |-> _mod32(a, b)]

Borderedbox(border, rect, wraparound) ==
  /\ LET res == borderedbox(image, border, BoxColor1, BoxColor2, rect,
                            wraparound)
     IN  /\ prev' = image
         /\ image' = res.image
         /\ call' = [op |-> "borderedbox", border |-> border, rect |-> rect,
                     wraparound |-> wraparound, written |-> res.written,
                     panicked |-> res.panicked]

\* One call is made on each image
NextBox ==
  \/ /\ call.op = "none"
     /\ \E a \in I32Min .. I32Max, b \in 0 .. U32Max : Min32(a, b)
  \/ /\ call.op = "none"
     /\ \E a \in I32Min .. I32Max, b \in 0 .. U32Max : Mod32(a, b)
  \/ /\ call.op = "none"
     /\ \E border \in BoxBorders, rect \in BoxRects, wraparound \in BOOLEAN :
          Borderedbox(border, rect, wraparound)

SpecBox == InitBox /\ [][NextBox]_vars

\* The pixels of img that differ from those of old
Changed(old, img) ==
  { p \in Positions(img) : get_pixel(img, p[1], p[2]) # get_pixel(old, p[1], p[2]) }

\* The rectangle of a borderedbox call is valid (x1 >= x0 and y1 >= y0)
ValidRect(rect) == rect[3] >= rect[1] /\ rect[4] >= rect[2]

\* r is the residue of a modulo b: 0 <= r < b and b divides a - r
IsResidue(r, a, b) == 0 <= r /\ r < b /\ (a - r) % b = 0

\* C11: _mod32(a, b) is the non-negative residue of a modulo b for every
\* i32 a (i32::MIN included) and every u32 b > 0, and borderedbox with
\* wraparound writes exactly the pixels (x mod width, y mod height) with
\* x0 <= x < x1 and y0 <= y < y1.
C11_WrapWritesResidues ==
  /\ (call.op = "_mod32" /\ call.b > 0) =>
       (~call.panicked /\ IsResidue(call.ret, call.a, call.b))
  /\ (call.op = "borderedbox" /\ call.wraparound /\ ValidRect(call.rect)
        /\ prev.width > 0 /\ prev.height > 0) =>
       LET residues ==
             { p \in Positions(prev) :
                 /\ \E x \in call.rect[1] .. (call.rect[3] - 1) :
                      IsResidue(p[1], x, prev.width)
                 /\ \E y \in call.rect[2] .. (call.rect[4] - 1) :
                      IsResidue(p[2], y, prev.height) }
       IN  /\ ~call.panicked
           /\ call.written = residues
           /\ Changed(prev, image) = residues

\* C11 witness: a box from x = -1 to x = 0 with wraparound wrote column
\* width - 1 of a 3-pixel-wide image and nothing else.
C11_Witness ==
  /\ call.op = "borderedbox"
  /\ call.wraparound
  /\ ~call.panicked
  /\ prev.width = 3
  /\ call.rect[1] = -1
  /\ call.rect[3] = 0
  /\ call.written = {<<2, 0>>}
  /\ get_pixel(image, 2, 0) # Background

\* C12: borderedbox without wraparound changes only pixels (x,y) with
\* max(x0,0) <= x < min(x1,width) and max(y0,0) <= y < min(y1,height), a
\* rectangle wholly outside the image changes nothing, the call does not
\* fail, and _min32(a, b) is the numeric minimum of a and b.
C12_ClampedBoxOnly ==
  /\ (call.op = "_min32") =>
       call.ret = (IF call.a <= call.b THEN call.a ELSE call.b)
  /\ (call.op = "borderedbox" /\ ~call.wraparound /\ ValidRect(call.rect)) =>
       /\ ~call.panicked
       /\ image.width = prev.width
       /\ image.height = prev.height
       /\ \A p \in Changed(prev, image) :
            /\ call.rect[1] <= p[1]
            /\ p[1] < call.rect[3]
            /\ call.rect[2] <= p[2]
            /\ p[2] < call.rect[4]

\* C12 witness: a box reaching from x = -1 past the right edge, drawn
\* without wraparound, changed pixels of the image and left others alone.
C12_Witness ==
  /\ call.op = "borderedbox"
  /\ ~call.wraparound
  /\ ~call.panicked
  /\ call.rect[1] < 0
  /\ call.rect[3] > prev.width
  /\ Changed(prev, image) # {}
  /\ Changed(prev, image) # Positions(prev)

\* C13: for a rectangle inside the image (0 <= x0 < x1 <= width and
\* 0 <= y0 < y1 <= height) every pixel on the four edges of the rectangle
\* is the border colour when there is one, and every other pixel of the
\* rectangle is color1 when x + y is even and color2 when x + y is odd.
C13_BorderAndParity ==
  (call.op = "borderedbox"
     /\ 0 <= call.rect[1] /\ call.rect[1] < call.rect[3]
     /\ call.rect[3] <= prev.width
     /\ 0 <= call.rect[2] /\ call.rect[2] < call.rect[4]
     /\ call.rect[4] <= prev.height) =>
    /\ ~call.panicked
    /\ \A x \in call.rect[1] .. (call.rect[3] - 1),
          y \in call.rect[2] .. (call.rect[4] - 1) :
         get_pixel(image, x, y) =
           IF call.border # << >>
              /\ (x = call.rect[1] \/ x = call.rect[3] - 1
                    \/ y = call.rect[2] \/ y = call.rect[4] - 1)
           THEN call.border[1]
           ELSE IF (x + y) % 2 = 0 THEN BoxColor1 ELSE BoxColor2

\* C13 witness: a bordered 3 x 3 box at (0,0): corner (2,2) has the border
\* colour and the inner pixel (1,1) has color1.
C13_Witness ==
  /\ call.op = "borderedbox"
  /\ call.border # << >>
  /\ call.rect = <<0, 0, 3, 3>>
  /\ prev.width = 3
  /\ prev.height = 3
  /\ ~call.panicked
  /\ get_pixel(image, 2, 2) = call.border[1]
  /\ get_pixel(image, 1, 1) = BoxColor1

\* C14: borderedbox with x1 < x0 or y1 < y0 panics on every image and
\* leaves it unchanged; with a valid rectangle that has x0 = x1 or y0 = y1
\* it returns without failing and without changing the image.
C14_BadRectPanics ==
  /\ (call.op = "borderedbox"
        /\ (call.rect[3] < call.rect[1] \/ call.rect[4] < call.rect[2])) =>
       (call.panicked /\ image = prev)
  /\ (call.op = "borderedbox" /\ ValidRect(call.rect)
        /\ (call.rect[1] = call.rect[3] \/ call.rect[2] = call.rect[4])) =>
       (~call.panicked /\ image = prev)

\* C14 witness: on an image of width 0, a rectangle with y1 < y0 (and
\* x1 >= x0) made the call panic.
C14_Witness ==
  /\ call.op = "borderedbox"
  /\ prev.width = 0
  /\ call.rect[3] >= call.rect[1]
  /\ call.rect[4] < call.rect[2]
  /\ call.panicked

\* ------------------------------------------------------------------------
\* wallpaper_image (imageop.rs).  The point handed to the group function
\* is (x / dest_width, y / dest_height) in steps of 1 / Unit, the source
\* rectangle has whole coordinates and the point sampled is a number of
\* 1 / Unit steps of a source pixel.

\* wallpaper_image without the rectangle's origin
wallpaper_image_norect(dest_width, dest_height, src_image, source_rect, name) ==
  ImageOf(dest_width, dest_height,
          [x \in 0 .. (dest_width - 1), y \in 0 .. (dest_height - 1) |->
             CHOOSE pixel \in
               { imagept(src_image, (source_rect[3] - source_rect[1]) * p[1],
                         (source_rect[4] - source_rect[2]) * p[2], Unit) :
                   p \in {group_func(name, (x * Unit) \div dest_width,
                                     (y * Unit) \div dest_height)} } : TRUE])

\* sx (i = 1) and sy (i = 2) for the point p the group function returned
source_coord(source_rect, p, i) ==
  source_rect[i] * Unit + (source_rect[i + 2] - source_rect[i]) * p[i]

\* The loops put one pixel at each (x, y) of the new image; p is the pair
\* (px, py), bound once for the pixel
wallpaper_image(dest_width, dest_height, src_image, source_rect, name) ==
  ImageOf(dest_width, dest_height,
          [x \in 0 .. (dest_width - 1), y \in 0 .. (dest_height - 1) |->
             CHOOSE pixel \in
               { imagept(src_image, source_coord(source_rect, p, 1),
                         source_coord(source_rect, p, 2), Unit) :
                   p \in {group_func(name, (x * Unit) \div dest_width,
                                     (y * Unit) \div dest_height)} } : TRUE])

\* ------------------------------------------------------------------------
\* Specification SpecWallpaper: wallpaper_image with each group function,
\* from a source image of up to MaxSrcW x MaxSrcH pixels of different
\* colours (zero-sized ones included), to every destination size up to
\* MaxDW x MaxDW for which x / dest_width is a whole number of grid steps,
\* over source rectangles inside, across and outside the source image.

MaxSrcW == 2
MaxSrcH == 2
MaxDW == 3

\* Pixel (x,y) of a source image: no two pixels alike
SrcColour(x, y) == <<40 * x + 10, 90 * y + 20, 255 - 60 * x - 30 * y>>

SrcImages ==
  { ImageOf(w, h, [x \in 0 .. (w - 1), y \in 0 .. (h - 1) |-> SrcColour(x, y)]) :
      w \in 0 .. MaxSrcW, h \in 0 .. MaxSrcH }

DestDims == {0} \cup { n \in 1 .. MaxDW : (Unit \div 4) % n = 0 }

\* The whole source image, a part of it, a rectangle across its edge and
\* one outside it
SourceRects(img) ==
  { <<0, 0, img.width, img.height>>, <<0, 0, 1, 1>>,
    <<1, 1, img.width + 1, img.height + 2>>,
    <<img.width + 1, img.height, img.width + 3, img.height + 1>> }

InitWallpaper ==
  /\ image \in SrcImages
  /\ prev = image
  /\ call = [op |-> "none", panicked |-> FALSE]

WallpaperImage(dest_width, dest_height, source_rect, name) ==
  /\ prev' = image
  /\ image' = image
  /\ call' = [op |-> "wallpaper_image", dest_width |-> dest_width,
              dest_height |-> dest_height, source_rect |-> source_rect,
              group_func |-> name, panicked |-> FALSE,
              ret |-> wallpaper_image(dest_width, dest_height, image,
                                      source_rect, name)]

\* One image is composed from each source image
NextWallpaper ==
  /\ call.op = "none"
  /\ \E dest_width \in DestDims, dest_height \in DestDims,
        source_rect \in SourceRects(image), name \in GroupNames :
       WallpaperImage(dest_width, dest_height, source_rect, name)

SpecWallpaper == InitWallpaper /\ [][NextWallpaper]_vars

\* C18: wallpaper_image(dw, dh, src, rect, f) returns an image of width dw
\* and height dh whose pixel (x,y) is imagept(src, rect[0] +
\* (rect[2]-rect[0])*px, rect[1] + (rect[3]-rect[1])*py) with (px,py) =
\* f(x/dw, y/dh), and leaves src as it was, also when rect lies partly or
\* wholly outside src.
C18_WallpaperPixels ==
  (call.op = "wallpaper_image") =>
    /\ ~call.panicked
    /\ image = prev
    /\ call.ret.width = call.dest_width
    /\ call.ret.height = call.dest_height
    /\ Cardinality(DOMAIN call.ret.data)
         = call.dest_width * call.dest_height * 3
    /\ \A x \in 0 .. (call.dest_width - 1), y \in 0 .. (call.dest_height - 1) :
         \A f \in {group_func(call.group_func,
                               (x * Unit) \div call.dest_width,
                               (y * Unit) \div call.dest_height)},
            r \in {call.source_rect} :
           get_pixel(call.ret, x, y) =
             imagept(image, r[1] * Unit + (r[3] - r[1]) * f[1],
                     r[2] * Unit + (r[4] - r[2]) * f[2], Unit)

\* C18 witness: a 2 x 2 source sampled through a rectangle that starts at
\* (1,1) and ends outside it; pixel (0,0) of the result is source pixel
\* (1,1) and the result has other colours as well.
C18_Witness ==
  /\ call.op = "wallpaper_image"
  /\ image.width = 2
  /\ image.height = 2
  /\ call.source_rect = <<1, 1, 3, 4>>
  /\ call.dest_width = 3
  /\ call.dest_height = 2
  /\ get_pixel(call.ret, 0, 0) = SrcColour(1, 1)
  /\ \E x \in 0 .. 2, y \in 0 .. 1 : get_pixel(call.ret, x, y) # SrcColour(1, 1)

\* ------------------------------------------------------------------------
\* Specification SpecZero: every operation of imageop.rs on an image whose
\* width or height is 0 (the other one up to MaxZ): imagept at the points
\* of SampleCoords, the two ditherers, borderedbox on the rectangles of
\* BoxRects and wallpaper_image to the sizes of DestDims.

MaxZ == 2

ZeroImages ==
  { BasicRgbImageData_new(w, 0) : w \in 0 .. MaxZ }
    \cup { BasicRgbImageData_new(0, h) : h \in 0 .. MaxZ }

InitZero ==
  /\ image \in ZeroImages
  /\ prev = image
  /\ call = [op |-> "none", panicked |-> FALSE]

\* One call is made on each image
NextZero ==
  \/ /\ call.op = "none"
     /\ \E xn \in SampleCoords, yn \in SampleCoords : Imagept(xn, yn)
  \/ /\ call.op = "none"
     /\ \E include_vga \in BOOLEAN : WebsafeDither(include_vga)
  \/ \E palette \in Palettes : FloydSteinbergDither(palette)
  \/ /\ call.op = "none"
     /\ \E border \in BoxBorders, rect \in BoxRects, wraparound \in BOOLEAN :
          Borderedbox(border, rect, wraparound)
  \/ /\ call.op = "none"
     /\ \E dest_width \in DestDims, dest_height \in DestDims,
           source_rect \in SourceRects(image), name \in GroupNames :
          WallpaperImage(dest_width, dest_height, source_rect, name)

SpecZero == InitZero /\ [][NextZero]_vars

\* C15: on an image whose width or height is zero no operation fails:
\* imagept returns [0,0,0]; websafedither, floyd_steinberg_dither and
\* borderedbox with a valid rectangle leave the image unchanged; and
\* wallpaper_image from it gives an image of the requested size whose
\* pixels are all [0,0,0].
C15_ZeroSizeNeutral ==
  (call.op # "none" /\ (prev.width = 0 \/ prev.height = 0)) =>
    /\ (call.op = "imagept") => (~call.panicked /\ call.ret = <<0, 0, 0>>)
    /\ (call.op \in {"websafedither", "floyd_steinberg_dither"}) =>
         (~call.panicked /\ image = prev)
    /\ (call.op = "borderedbox" /\ ValidRect(call.rect)) =>
         (~call.panicked /\ image = prev)
    /\ (call.op = "wallpaper_image") =>
         /\ ~call.panicked
         /\ image = prev
         /\ call.ret.width = call.dest_width
         /\ call.ret.height = call.dest_height
         /\ \A p \in Positions(call.ret) :
              get_pixel(call.ret, p[1], p[2]) = <<0, 0, 0>>

\* C15 witness: wallpaper_image from an image of width 0 and height 2 gave
\* a 2 x 3 image whose last pixel is black.
C15_Witness ==
  /\ call.op = "wallpaper_image"
  /\ prev.width = 0
  /\ prev.height = 2
  /\ call.dest_width = 2
  /\ call.dest_height = 3
  /\ ~call.panicked
  /\ get_pixel(call.ret, 1, 2) = <<0, 0, 0>>

\* ------------------------------------------------------------------------
\* BasicRgbImageData::new on every pair of words (basicrgbimage.rs).  The
\* size width * height * 3 is a product of u32 values: when it passes
\* u32::MAX, a build with overflow checks panics and a build without them
\* keeps the low bits of the product.

new_overflows(width, height) ==
  width * height > U32Max \/ width * height * 3 > U32Max

\* vec![0; width * height * 3] with the product wrapped to a word
new_wrapping(width, height) ==
  [width |-> width, height |-> height,
   data |-> [k \in 0 .. (((width * height * 3) % U32Modulus) - 1) |-> 0]]

\* ------------------------------------------------------------------------
\* Specification SpecNew: new(width, height) for all words width and
\* height, in a build with and in a build without overflow checks.

InitNew ==
  /\ image = NoImage
  /\ prev = NoImage
  /\ call = [op |-> "none", panicked |-> FALSE]

New(width, height, overflow_checks) ==
  /\ prev' = image
  /\ call' = [op |-> "new", width |-> width, height |-> height,
              overflow_checks |-> overflow_checks,
              panicked |-> (overflow_checks /\ new_overflows(width, height))]
  /\ image' = IF overflow_checks /\ new_overflows(width, height) THEN image
              ELSE new_wrapping(width, height)

\* One image is made in a run
NextNew ==
  /\ call.op = "none"
  /\ \E width \in 0 .. U32Max, height \in 0 .. U32Max,
        overflow_checks \in BOOLEAN :
       New(width, height, overflow_checks)

SpecNew == InitNew /\ [][NextNew]_vars

\* C16: new(w, h) gives an image of width w and height h with a store of
\* exactly w * h * 3 bytes in which get_pixel(x, y) = [0,0,0] for every
\* 0 <= x < w and 0 <= y < h, for all u32 w and h.
C16_NewBlank ==
  (call.op = "new") =>
    /\ ~call.panicked
    /\ image.width = call.width
    /\ image.height = call.height
    /\ DOMAIN image.data = 0 .. (call.width * call.height * 3 - 1)
    /\ \A x \in 0 .. (call.width - 1), y \in 0 .. (call.height - 1) :
         get_pixel(image, x, y) = <<0, 0, 0>>

\* ------------------------------------------------------------------------
\* SoftbufferData (desktopwallpaper/src/lib.rs): width, height and a slice
\* `data` of width*height u32 words, one word 0x00RRGGBB per pixel.

\* put_pixel with the red and the blue byte exchanged
SoftbufferData_put_pixel_bgr(buf, x, y, pixel) ==
  LET us == y * buf.width + x
  IN  [buf EXCEPT !.data[us] = pixel[1] + pixel[2] * 256 + pixel[3] * 65536]

SoftbufferData_get_pixel_panics(buf, x, y) ==
  y * buf.width + x \notin DOMAIN buf.data

\* [((du>>16)&0xFF) as u8, ((du>>8)&0xFF) as u8, (du&0xFF) as u8]
SoftbufferData_get_pixel(buf, x, y) ==
  LET us == y * buf.width + x
      du == buf.data[us]
  IN  <<(du \div 65536) % 256, (du \div 256) % 256, du % 256>>

\* (pixel[2] as u32)|((pixel[1] as u32)<<8)|((pixel[0] as u32)<<16)
SoftbufferData_put_pixel(buf, x, y, pixel) ==
  LET us == y * buf.width + x
  IN  [buf EXCEPT !.data[us] = pixel[3] + pixel[2] * 256 + pixel[1] * 65536]

\* ------------------------------------------------------------------------
\* Specification SpecBuffers: a BasicRgbImageData and a SoftbufferData of
\* the same size (up to MaxBufW x MaxBufH) and with the same pixels, the
\* top byte of the words of the second being 0 or not, receive the same
\* in-bounds get_pixel and put_pixel calls.  Here `image` is the pair of
\* the two images: image.basic and image.soft.

MaxBufW == 2
MaxBufH == 2

BufColours == {<<0, 0, 0>>, <<1, 128, 255>>}

\* The byte softbuffer leaves unused, as found in a buffer
TopBytes == {0, 127}

\* 0xTTRRGGBB
Word(top, c) == top * 16777216 + c[1] * 65536 + c[2] * 256 + c[3]

InitBuffers ==
  /\ \E w \in 1 .. MaxBufW, h \in 1 .. MaxBufH, top \in TopBytes :
       \E p \in [0 .. (w * h - 1) -> BufColours] :
         image = [basic |-> [width |-> w, height |-> h,
                             data |-> [k \in 0 .. (w * h * 3 - 1) |->
                                         p[k \div 3][(k % 3) + 1]]],
                  soft |-> [width |-> w, height |-> h,
                            data |-> [k \in 0 .. (w * h - 1) |->
                                        Word(top, p[k])]]]
  /\ prev = image
  /\ call = [op |-> "none", panicked |-> FALSE]

GetPixelBoth(x, y) ==
  /\ x < image.basic.width
  /\ y < image.basic.height
  /\ prev' = image
  /\ image' = image
  /\ call' = [op |-> "get_pixel", x |-> x, y |-> y,
              panicked |-> get_pixel_panics(image.basic, x, y)
                             \/ SoftbufferData_get_pixel_panics(image.soft, x, y),
              ret |-> get_pixel(image.basic, x, y),
              soft_ret |-> SoftbufferData_get_pixel(image.soft, x, y)]

PutPixelBoth(x, y, pixel) ==
  /\ x < image.basic.width
  /\ y < image.basic.height
  /\ prev' = image
  /\ image' = [basic |-> put_pixel(image.basic, x, y, pixel),
               soft |-> SoftbufferData_put_pixel(image.soft, x, y, pixel)]
  /\ call' = [op |-> "put_pixel", x |-> x, y |-> y, pixel |-> pixel,
              panicked |-> get_pixel_panics(image.basic, x, y)
                             \/ SoftbufferData_get_pixel_panics(image.soft, x, y)]

NextBuffers ==
  \/ \E x \in 0 .. (MaxBufW - 1), y \in 0 .. (MaxBufH - 1) : GetPixelBoth(x, y)
  \/ \E x \in 0 .. (MaxBufW - 1), y \in 0 .. (MaxBufH - 1),
        pixel \in BufColours :
       PutPixelBoth(x, y, pixel)

SpecBuffers == InitBuffers /\ [][NextBuffers]_vars

\* C17: after the same in-bounds put_pixel calls on equal contents,
\* BasicRgbImageData and SoftbufferData return the same get_pixel(x,y) for
\* every in-bounds (x,y): the colour last put there, else the colour it
\* had; put_pixel(x,y,c) changes no other pixel, nor width or height.
C17_BuffersAgree ==
  (call.op \in {"none", "get_pixel", "put_pixel"}) =>
    /\ ~call.panicked
    /\ image.soft.width = image.basic.width
    /\ image.soft.height = image.basic.height
    /\ image.basic.width = prev.basic.width
    /\ image.basic.height = prev.basic.height
    /\ \A p \in Positions(image.basic) :
         /\ get_pixel(image.basic, p[1], p[2])
              = SoftbufferData_get_pixel(image.soft, p[1], p[2])
         /\ get_pixel(image.basic, p[1], p[2])
              = IF call.op = "put_pixel" /\ p = <<call.x, call.y>>
                THEN call.pixel
                ELSE get_pixel(prev.basic, p[1], p[2])
    /\ (call.op = "get_pixel") =>
         (call.ret = call.soft_ret
            /\ call.ret = get_pixel(image.basic, call.x, call.y))

\* C17 witness: pixel (1,1) of two 2 x 2 images, black before, was put to
\* (1,128,255) in both, the unused byte of the second one's words being
\* set, and pixel (0,0) kept the other colour.
C17_Witness ==
  /\ call.op = "put_pixel"
  /\ image.basic.width = 2
  /\ image.basic.height = 2
  /\ call.x = 1
  /\ call.y = 1
  /\ call.pixel = <<1, 128, 255>>
  /\ get_pixel(prev.basic, 1, 1) = <<0, 0, 0>>
  /\ image.soft.data[0] = Word(127, <<0, 0, 0>>)
  /\ SoftbufferData_get_pixel(image.soft, 1, 1) = <<1, 128, 255>>
  /\ get_pixel(image.basic, 0, 0) = <<0, 0, 0>>

\* ------------------------------------------------------------------------
\* randomboxes and randomwallpaper (randomwp.rs; desktopwallpaper's
\* randomwp.rs is the same text with the sampling macros of random.rs; the
\* standalone program of main.rs has its own, older randomwallpaper).
\*
\* The images are 128 to 256 pixels a side.  The image is followed at one
\* pixel: `image` is [width, height, at, pixel], the size of the image and
\* the colour it holds at position `at`.  new, borderedbox and websafedither
\* set a pixel from its position and its own colour alone; wallpaper_image
\* builds a pixel from four pixels of the source (imagept), and
\* floyd_steinberg_dither from the errors carried to it, so after these two
\* the pixel is any colour of BlendColours, or any entry of the palette.

\* The bounds of Uniform::new_inclusive(128, 256)
SideLo == 128
SideHi == 256

\* for _ in 0..30
BoxCount == 30

\* The upper bound of Uniform::new_inclusive(0, 13)
LastGroupSlot == 13

random_side_unmasked(v) == v

\* `v & !7`: v with its three low bits cleared
random_side(v) == v - (v % 8)

\* The four distributions of randomboxes: [lo, hi] of ux0, uy0, ux1, uy1
ux0(img) == <<0, img.width - 1>>
uy0(img) == <<3, Max(3, (img.width * 3) \div 4)>>
ux1(img) == <<0, img.height - 1>>
uy1(img) == <<3, Max(3, (img.height * 3) \div 4)>>

\* The rectangle of one box from the four draws
random_rect(sx0, sx1, sy0, sy1) == <<sx0, sy0, sx0 + sx1, sy0 + sy1>>

\* The match on the group draw
random_group(n) ==
  CASE n = 0 -> "p4m"
    [] n = 1 -> "p4malt"
    [] n = 2 -> "p3m1"
    [] n = 3 -> "p6m"
    [] n = 4 -> "p6malt"
    [] n = 5 -> "p3m1alt1"
    [] n = 6 -> "p3m1alt2"
    [] n = 7 -> "p6malt1a"
    [] n = 8 -> "p6malt1b"
    [] n = 9 -> "p6malt2a"
    [] n = 10 -> "p6malt2b"
    [] n = 11 -> "p4m"
    [] n = 12 -> "p4malt"
    [] OTHER -> "pmm"

\* The dither randomwallpaper ends with: websafedither(&mut image, true) in
\* randomwp.rs; in main.rs a second zero_or_one draw picks websafedither
\* (0) or floyd_steinberg_dither with classiccolors (1)
random_dither(copy, zero_or_one) ==
  IF copy = "main" /\ zero_or_one = 1
  THEN [op |-> "floyd_steinberg_dither", palette |-> classiccolors]
  ELSE [op |-> "websafedither", include_vga |-> TRUE]

\* ------------------------------------------------------------------------
\* Specification SpecRandom: one call of randomwallpaper, step by step.
\* `call` is [op, copy, pc, boxes, zero_or_one, last]: the copy of
\* randomwallpaper that runs, its position, the boxes drawn so far, the
\* branch draw (2 before it is made) and the call it made last.

Copies == {"randomwp", "main"}

\* The draws the model takes from Uniform::new_inclusive(lo, hi)
Sampled(range) == {range[1], range[2]}

\* The draws taken from 128..=256: the ends, and the draws 7 above and 1
\* below a multiple of 8
SideDraws == {SideLo, SideLo + 7, SideHi - 1, SideHi}

BoxColours == {<<254, 50, 1>>}

BlendColours == MixColours \cup {<<0, 0, 0>>, <<77, 200, 255>>}

\* The palette entries floyd_steinberg_dither may leave at the pixel (0 when
\* the dither is websafedither, which takes none)
DitherEntries(dither) ==
  IF dither.op = "floyd_steinberg_dither"
  THEN 1 .. Len(dither.palette)
  ELSE {0}

\* The positions the image is followed at
Probes(width, height) == {<<0, 0>>, <<7, 1>>, <<width - 1, height - 1>>}

InitRandom ==
  /\ image = NoImage
  /\ prev = NoImage
  /\ \E copy \in Copies :
       call = [op |-> "randomwallpaper", copy |-> copy, pc |-> "new",
               boxes |-> 0, zero_or_one |-> 2, last |-> [op |-> "none"]]

\* let w = ... & !7; let h = ... & !7; let mut image = T::new(w, h)
\* (blankimage(w, h, [0, 0, 0]) in main.rs)
RandomNew(sw, sh, at) ==
  /\ call.pc = "new"
  /\ LET w == random_side(sw)
         h == random_side(sh)
     IN  /\ at \in Probes(w, h)
         /\ image' = [width |-> w, height |-> h, at |-> at,
                      pixel |-> <<0, 0, 0>>]
         /\ call' = [call EXCEPT !.pc = "randomboxes",
                       !.last = [op |-> "new", width |-> w, height |-> h]]
  /\ prev' = image

\* One iteration of the loop of randomboxes
RandomBox(sx0, sx1, sy0, sy1, c0) ==
  /\ call.pc = "randomboxes"
  /\ call.boxes < BoxCount
  /\ LET rect == random_rect(sx0, sx1, sy0, sy1)
         border == << <<0, 0, 0>> >>
         r == box_range(image, rect, TRUE)
     IN  /\ ~borderedbox_panics(rect)
         /\ image' = [image EXCEPT !.pixel =
                        box_pixel(image.width, image.height, border, c0, c0,
                                  r, image.at[1], image.at[2], image.pixel)]
         /\ call' = [call EXCEPT !.boxes = call.boxes + 1,
                       !.last = [op |-> "borderedbox", border |-> border,
                                 color1 |-> c0, color2 |-> c0,
                                 rect |-> rect, wraparound |-> TRUE]]
  /\ prev' = image

\* The loop of randomboxes ends and randomboxes returns the image
RandomBoxesReturn ==
  /\ call.pc = "randomboxes"
  /\ call.boxes = BoxCount
  /\ call' = [call EXCEPT !.pc = "branch", !.last = [op |-> "randomboxes"]]
  /\ UNCHANGED <<image, prev>>

\* zero_or_one = 0: image = wallpaper_image(w2, h2, &image, [0, 0, w, h],
\* group)
RandomRecompose(sw, sh, n, at, pixel) ==
  /\ call.pc = "branch"
  /\ LET w2 == random_side(sw)
         h2 == random_side(sh)
     IN  /\ at \in Probes(w2, h2)
         /\ image' = [width |-> w2, height |-> h2, at |-> at,
                      pixel |-> pixel]
         /\ call' = [call EXCEPT !.pc = "dither", !.zero_or_one = 0,
                       !.last = [op |-> "wallpaper_image",
                                 dest_width |-> w2, dest_height |-> h2,
                                 source_rect |-> <<0, 0, image.width,
                                                   image.height>>,
                                 name |-> random_group(n)]]
  /\ prev' = image

\* zero_or_one = 1: the image stays as randomboxes left it
RandomKeep ==
  /\ call.pc = "branch"
  /\ call' = [call EXCEPT !.pc = "dither", !.zero_or_one = 1]
  /\ UNCHANGED <<image, prev>>

\* The dither, and the return of the image (randomwp.rs makes no second
\* draw: random_dither ignores zero_or_one there)
RandomDither(zero_or_one, entry) ==
  /\ call.pc = "dither"
  /\ LET dither == random_dither(call.copy, zero_or_one)
     IN  /\ image' = [image EXCEPT !.pixel =
                        IF dither.op = "websafedither"
                        THEN websafe_pixel(image.pixel, image.at[1],
                                           image.at[2], dither.include_vga)
                        ELSE dither.palette[entry]]
         /\ call' = [call EXCEPT !.pc = "done", !.last = dither]
  /\ prev' = image

NextRandom ==
  \/ /\ call.pc = "new"
     /\ \E sw \in SideDraws, sh \in SideDraws :
          \E at \in Probes(random_side(sw), random_side(sh)) :
            RandomNew(sw, sh, at)
  \/ /\ call.pc = "randomboxes"
     /\ \E sx0 \in Sampled(ux0(image)), sx1 \in Sampled(ux1(image)),
           sy0 \in Sampled(uy0(image)), sy1 \in Sampled(uy1(image)),
           c0 \in BoxColours :
          RandomBox(sx0, sx1, sy0, sy1, c0)
  \/ RandomBoxesReturn
  \/ /\ call.pc = "branch"
     /\ \E sw \in SideDraws, sh \in SideDraws, n \in 0 .. LastGroupSlot,
           pixel \in BlendColours :
          \E at \in Probes(random_side(sw), random_side(sh)) :
            RandomRecompose(sw, sh, n, at, pixel)
  \/ RandomKeep
  \/ /\ call.pc = "dither"
     /\ \E zero_or_one \in 0 .. 1 :
          \E entry \in DitherEntries(random_dither(call.copy, zero_or_one)) :
            RandomDither(zero_or_one, entry)

SpecRandom == InitRandom /\ [][NextRandom]_vars

IsRandomSide(n) == n % 8 = 0 /\ SideLo <= n /\ n <= SideHi

\* C19: the image randomwallpaper returns is a multiple of 8 pixels wide and
\* high, each within [128,256], whether it is the image randomboxes drew on
\* or the one wallpaper_image composed at the second size; and every draw
\* of 128..=256 is masked to such a side.
C19_SidesMultipleOf8 ==
  /\ \A v \in SideLo .. SideHi : IsRandomSide(random_side(v))
  /\ call.pc = "done" =>
       IsRandomSide(image.width) /\ IsRandomSide(image.height)

\* A recomposed image is returned at a size masked down from the draws 255
\* and 135, which differs from the size of the first image
C19_Witness ==
  /\ call.pc = "done"
  /\ call.zero_or_one = 0
  /\ image.width = 248
  /\ image.height = 128
  /\ prev.width = 248

\* C20: randomwallpaper never applies floyd_steinberg_dither, the last call
\* it makes before it returns is websafedither(image, true), and the pixel
\* of the returned image is web-safe or one of the 8 VGA colours.
C20_EndsWithWebsafeDither ==
  /\ call.last.op # "floyd_steinberg_dither"
  /\ call.pc = "done" =>
       /\ call.last.op = "websafedither"
       /\ call.last.include_vga
       /\ IsWebSafe(image.pixel) \/ image.pixel \in VgaColours

\* The same for the copies of randomwp.rs alone
RandomwpEndsWithWebsafeDither ==
  call.copy = "randomwp" => C20_EndsWithWebsafeDither

\* ------------------------------------------------------------------------
\* parfor and parfor2 (desktopwallpaper's parfor.rs).  For count >= 2 the
\* indices 0..count go through orx_parallel: (0..count).into_par() is one
\* shared iterator that hands each index to one worker thread, map runs the
\* closure on the index a worker holds, and sum() returns to the caller
\* once every worker has found the iterator exhausted.

\* The arm of `match count`
parfor_arm_no_one(count) == IF count = 0 THEN "none" ELSE "par"

parfor_arm(count) ==
  CASE count = 0 -> "none"
    [] count = 1 -> "inline"
    [] OTHER -> "par"

\* The arguments func is called with for index i: func(i) in parfor,
\* func(i, obj) in parfor2
parfor_args(op, i, obj) ==
  IF op = "parfor2" THEN <<i, obj>> ELSE <<i>>

\* The value of the closure |i| { func(i); 1 }
parfor_item(i) == 1

\* ------------------------------------------------------------------------
\* Specification SpecParfor: one call of parfor or parfor2.  `call` is
\* [op, count, pc, next, workers, invoked, sum, panicked]: `next` is the
\* position of the shared iterator, workers[w] is [pc, i, sum] (the index a
\* worker holds and the sum of its items), invoked is the sequence of
\* [thread, args] of the invocations of func made, in order.  `image` is
\* the obj of parfor2.

MaxCount == 4
MaxWorkers == 2

Workers == 1 .. MaxWorkers

SharedObj == blankimage(1, 1, <<128, 0, 128>>)

InitParfor ==
  /\ \E op \in {"parfor", "parfor2"}, count \in 0 .. MaxCount :
       /\ call = [op |-> op, count |-> count, pc |-> "match", next |-> 0,
                  workers |-> [w \in Workers |-> [pc |-> "idle", i |-> 0,
                                                  sum |-> 0]],
                  invoked |-> << >>, sum |-> 0, panicked |-> FALSE]
       /\ image = IF op = "parfor2" THEN SharedObj ELSE NoImage
  /\ prev = image

\* 0 => ()
ParforNone ==
  /\ call.pc = "match"
  /\ parfor_arm(call.count) = "none"
  /\ call' = [call EXCEPT !.pc = "done"]
  /\ UNCHANGED <<image, prev>>

\* 1 => func(0): the call is made by the thread that called parfor
ParforInline ==
  /\ call.pc = "match"
  /\ parfor_arm(call.count) = "inline"
  /\ call' = [call EXCEPT !.pc = "done",
                !.invoked = Append(call.invoked,
                              [thread |-> 0,
                               args |-> parfor_args(call.op, 0, image)])]
  /\ UNCHANGED <<image, prev>>

\* _ => the parallel iterator starts
ParforPar ==
  /\ call.pc = "match"
  /\ parfor_arm(call.count) = "par"
  /\ call' = [call EXCEPT !.pc = "par"]
  /\ UNCHANGED <<image, prev>>

\* A worker takes the next index of 0..count, or finds none left
WorkerNext(w) ==
  /\ call.pc = "par"
  /\ call.workers[w].pc = "idle"
  /\ call' = IF call.next < call.count
             THEN [call EXCEPT !.next = call.next + 1,
                     !.workers[w].pc = "map", !.workers[w].i = call.next]
             ELSE [call EXCEPT !.workers[w].pc = "finished"]
  /\ UNCHANGED <<image, prev>>

\* The closure on the index the worker holds: func(i), then 1
WorkerMap(w) ==
  /\ call.pc = "par"
  /\ call.workers[w].pc = "map"
  /\ LET i == call.workers[w].i
     IN  call' = [call EXCEPT !.workers[w].pc = "idle",
                    !.workers[w].sum = call.workers[w].sum + parfor_item(i),
                    !.invoked = Append(call.invoked,
                                  [thread |-> w,
                                   args |-> parfor_args(call.op, i, image)])]
  /\ UNCHANGED <<image, prev>>

RECURSIVE SumOver(_, _)
SumOver(f, S) ==
  IF S = {} THEN 0
  ELSE LET w == CHOOSE v \in S : TRUE IN f[w].sum + SumOver(f, S \ {w})

\* sum() returns; assert_eq!(count, sum) panics when they differ
ParforSum ==
  /\ call.pc = "par"
  /\ \A w \in Workers : call.workers[w].pc = "finished"
  /\ LET sum == SumOver(call.workers, Workers)
     IN  call' = [call EXCEPT !.pc = "done", !.sum = sum,
                    !.panicked = (sum # call.count)]
  /\ UNCHANGED <<image, prev>>

NextParfor ==
  \/ ParforNone
  \/ ParforInline
  \/ ParforPar
  \/ /\ call.pc = "par"
     /\ \E w \in Workers : WorkerNext(w)
  \/ /\ call.pc = "par"
     /\ \E w \in Workers : WorkerMap(w)
  \/ ParforSum

SpecParfor == InitParfor /\ [][NextParfor]_vars

\* The number of invocations made for index i
Invocations(i) ==
  Cardinality({k \in 1 .. Len(call.invoked) : call.invoked[k].args[1] = i})

BilinearBlend(here, right, below, across, txn, tyn, den) ==
  Clamp(((den - txn) * (den - tyn) * here + txn * (den - tyn) * right
         + (den - txn) * tyn * below + txn * tyn * across) \div (den * den),
        0, 255)

\* C22: for a point with 0 <= x < width and 0 <= y < height, imagept
\* returns per channel the floor of the bilinear blend in which the x
\* fraction weights the horizontal neighbour ((xi+1) mod w, yi) and the y
\* fraction the vertical neighbour (xi, (yi+1) mod h), clamped to [0,255].
C22_BilinearWeights ==
  (/\ call.op = "imagept"
   /\ 0 <= call.x /\ call.x < image.width * call.den
   /\ 0 <= call.y /\ call.y < image.height * call.den) =>
    LET xi == call.x \div call.den
        yi == call.y \div call.den
        xi1 == (xi + 1) % image.width
        yi1 == (yi + 1) % image.height
    IN  \A c \in 1 .. 3 :
          call.ret[c] =
            BilinearBlend(get_pixel(image, xi, yi)[c],
                          get_pixel(image, xi1, yi)[c],
                          get_pixel(image, xi, yi1)[c],
                          get_pixel(image, xi1, yi1)[c],
                          call.x - xi * call.den, call.y - yi * call.den,
                          call.den)

\* The same with the two neighbours exchanged, as the code has them: the x
\* fraction weights (xi, (yi+1) mod h) and the y fraction ((xi+1) mod w, yi)
ImageptTransposedWeights ==
  (/\ call.op = "imagept"
   /\ 0 <= call.x /\ call.x < image.width * call.den
   /\ 0 <= call.y /\ call.y < image.height * call.den) =>
    LET xi == call.x \div call.den
        yi == call.y \div call.den
        xi1 == (xi + 1) % image.width
        yi1 == (yi + 1) % image.height
    IN  \A c \in 1 .. 3 :
          call.ret[c] =
            BilinearBlend(get_pixel(image, xi, yi)[c],
                          get_pixel(image, xi, yi1)[c],
                          get_pixel(image, xi1, yi)[c],
                          get_pixel(image, xi1, yi1)[c],
                          call.x - xi * call.den, call.y - yi * call.den,
                          call.den)

\* ------------------------------------------------------------------------
\* floyd_steinberg_dither: the diffusion of the residual (checked in
\* SpecFloyd)

\* The state [img, err] when the loop over the rows reaches row j
RECURSIVE fs_before_row(_, _, _)
fs_before_row(img, palette, j) ==
  IF j = 0
  THEN [img |-> img, err |-> [k \in 0 .. (img.width * 6 - 1) |-> 0]]
  ELSE fs_row(fs_before_row(img, palette, j - 1), j - 1, palette)

\* The state when the code comes to pixel (i, j): column 0 has been
\* quantized once before the column loop starts
RECURSIVE fs_before_pixel(_, _, _, _)
fs_before_pixel(img, palette, i, j) ==
  IF i = 0
  THEN fs_first(fs_load_row(fs_before_row(img, palette, j), j), j, palette)
  ELSE fs_step(fs_before_pixel(img, palette, i - 1, j), i - 1, j, palette)

\* The state when the code has left pixel (i, j): at the next pixel of the
\* row, or at the end of the row
fs_after_pixel(img, palette, i, j) ==
  IF i < img.width - 1
  THEN fs_before_pixel(img, palette, i + 1, j)
  ELSE fs_before_row(img, palette, j + 1)

\* err with v added at column x of the array that starts at a, when the
\* image has such a column
AddAtColumn(err, width, a, x, v) ==
  IF 0 <= x /\ x < width THEN AddAt(err, a + x, v) ELSE err

\* The four additions of the claim for the residual e of column i, in the
\* arrays that start at a1 (row j) and a2 (row j + 1)
DiffuseToNeighbours(err, width, a1, a2, i, e) ==
  AddAtColumn(AddAtColumn(AddAtColumn(AddAtColumn(err, width, a1, i + 1,
                                                  Shr4(e * 7)),
                                      width, a2, i - 1, Shr4(e * 3)),
                          width, a2, i, Shr4(e * 5)),
              width, a2, i + 1, Shr4(e))

\* err and other hold the same accumulated values of pixels: the arrays of
\* row j + 1 stand for pixels when the image has that row
SameAccumulated(err, other, img, j) ==
  \A k \in DOMAIN err :
    ((k \div img.width) % 2 = 0 \/ j + 1 < img.height) => err[k] = other[k]

\* C23: for every pixel (i,j), with e the accumulated value clamped to
\* [0,255] minus the chosen palette value in each channel, the code adds
\* (7e)>>4 to the accumulated value of (i+1,j), (3e)>>4 to (i-1,j+1),
\* (5e)>>4 to (i,j+1) and e>>4 to (i+1,j+1), where the image has these
\* columns, and changes no other accumulated value.
C23_DiffusesToFourNeighbours ==
  (/\ call.op = "floyd_steinberg_dither"
   /\ ~call.panicked
   /\ prev.width > 0 /\ prev.height > 0) =>
    \A i \in 0 .. (prev.width - 1), j \in 0 .. (prev.height - 1) :
      LET w == prev.width
          q == fs_quantize(fs_before_pixel(prev, call.palette, i, j), i, j,
                           call.palette)
          chosen == call.palette[q.idx + 1]
          er == DiffuseToNeighbours(q.err, w, 0, w, i, q.err[i] - chosen[1])
          eg == DiffuseToNeighbours(er, w, 2 * w, 3 * w, i,
                                    q.err[2 * w + i] - chosen[2])
          eb == DiffuseToNeighbours(eg, w, 4 * w, 5 * w, i,
                                    q.err[4 * w + i] - chosen[3])
      IN  SameAccumulated(fs_after_pixel(prev, call.palette, i, j).err, eb,
                          prev, j)

\* The same for the pixels that are neither in the first nor in the last
\* column
FloydInnerColumnsDiffuse ==
  (/\ call.op = "floyd_steinberg_dither"
   /\ ~call.panicked
   /\ prev.width > 0 /\ prev.height > 0) =>
    \A i \in 1 .. (prev.width - 2), j \in 0 .. (prev.height - 1) :
      LET w == prev.width
          q == fs_quantize(fs_before_pixel(prev, call.palette, i, j), i, j,
                           call.palette)
          chosen == call.palette[q.idx + 1]
          er == DiffuseToNeighbours(q.err, w, 0, w, i, q.err[i] - chosen[1])
          eg == DiffuseToNeighbours(er, w, 2 * w, 3 * w, i,
                                    q.err[2 * w + i] - chosen[2])
          eb == DiffuseToNeighbours(eg, w, 4 * w, 5 * w, i,
                                    q.err[4 * w + i] - chosen[3])
      IN  SameAccumulated(fs_after_pixel(prev, call.palette, i, j).err, eb,
                          prev, j)

\* ------------------------------------------------------------------------
\* Specification SpecNearest: nearestrgb3 on every palette of up to MaxPal
\* entries over NearestColours (entries at equal distances, repeated
\* entries, exact matches), for the colours of NearestQueries.

MaxPal == 3

NearestColours ==
  {<<0, 0, 0>>, <<10, 0, 0>>, <<0, 10, 0>>, <<255, 255, 255>>}

NearestQueries ==
  {<<0, 0, 0>>, <<5, 5, 0>>, <<10, 0, 0>>, <<128, 128, 128>>,
   <<255, 255, 255>>}

InitNearest ==
  /\ image = NoImage
  /\ prev = NoImage
  /\ \E n \in 0 .. MaxPal :
       \E palette \in [1 .. n -> NearestColours] :
         call = [op |-> "none", palette |-> palette]

Nearestrgb3(r, g, b) ==
  /\ call' = [op |-> "nearestrgb3", palette |-> call.palette, r |-> r,
              g |-> g, b |-> b,
              ret |-> nearestrgb3(call.palette, r, g, b)]
  /\ UNCHANGED <<image, prev>>

NextNearest ==
  /\ call.op = "none"
  /\ \E c \in NearestQueries : Nearestrgb3(c[1], c[2], c[3])

SpecNearest == InitNearest /\ [][NextNearest]_vars

\* The loop without its `break`: every entry is visited
RECURSIVE NearestNoBreak(_, _, _, _, _, _, _)
NearestNoBreak(palette, r, g, b, i, best, ret) ==
  IF i >= Len(palette) THEN ret
  ELSE LET dist == rgb_dist(palette[i + 1], r, g, b)
       IN  IF i = 0 \/ dist < best
           THEN NearestNoBreak(palette, r, g, b, i + 1, dist, i)
           ELSE NearestNoBreak(palette, r, g, b, i + 1, best, ret)

SquaredDistance(color, r, g, b) ==
  (r - color[1]) ^ 2 + (g - color[2]) ^ 2 + (b - color[3]) ^ 2

\* C24: on a non-empty palette nearestrgb3 returns the smallest index whose
\* entry is at the least squared distance from (r, g, b), and the loop
\* without the early stop returns the same index.
C24_NearestFirstMinimum ==
  (call.op = "nearestrgb3" /\ Len(call.palette) > 0) =>
    /\ call.ret \in 0 .. (Len(call.palette) - 1)
    /\ \A i \in 0 .. (Len(call.palette) - 1) :
         LET di == SquaredDistance(call.palette[i + 1], call.r, call.g,
                                   call.b)
             dret == SquaredDistance(call.palette[call.ret + 1], call.r,
                                     call.g, call.b)
         IN  /\ dret <= di
             /\ i < call.ret => dret < di
    /\ call.ret = NearestNoBreak(call.palette, call.r, call.g, call.b,
                                 0, 0, 0)

\* (5,5,0) is as far from (10,0,0) as from (0,10,0); the first of the two
\* is returned, after a farther entry
C24_Witness ==
  /\ call.op = "nearestrgb3"
  /\ call.palette = << <<255, 255, 255>>, <<10, 0, 0>>, <<0, 10, 0>> >>
  /\ <<call.r, call.g, call.b>> = <<5, 5, 0>>
  /\ call.ret = 1

\* ------------------------------------------------------------------------
\* randomboxes: the size of the boxes (checked in SpecRandom)

\* C25: every box randomboxes draws on a w x h image is between 3 and
\* max(3, 3w/4) wide (x1 - x0), between 3 and max(3, 3h/4) high (y1 - y0),
\* and drawn with wraparound.
C25_BoxSizes ==
  call.last.op = "borderedbox" =>
    LET rect == call.last.rect
    IN  /\ call.last.wraparound
        /\ 3 <= rect[3] - rect[1]
        /\ rect[3] - rect[1] <= Max(3, (image.width * 3) \div 4)
        /\ 3 <= rect[4] - rect[2]
        /\ rect[4] - rect[2] <= Max(3, (image.height * 3) \div 4)

\* What the code gives: a width of 0 to h - 1, a height of 3 to
\* max(3, 3h/4), and a top edge y0 of 3 to max(3, 3w/4)
RandomBoxSizesOfCode ==
  call.last.op = "borderedbox" =>
    LET rect == call.last.rect
    IN  /\ call.last.wraparound
        /\ 0 <= rect[3] - rect[1]
        /\ rect[3] - rect[1] <= image.height - 1
        /\ 3 <= rect[4] - rect[2]
        /\ rect[4] - rect[2] <= Max(3, (image.height * 3) \div 4)
        /\ 0 <= rect[1] /\ rect[1] <= image.width - 1
        /\ 3 <= rect[2]
        /\ rect[2] <= Max(3, (image.width * 3) \div 4)

\* ------------------------------------------------------------------------
\* p3m1: the match table (checked in SpecGroup)

\* The (xarea, yarea, left_half) patterns of the arms of the match, in the
\* order of the source; the last arm, `_`, returns (0.0, 0.0)
p3m1_patterns ==
  {<<1, 1, FALSE>>, <<4, 0, FALSE>>, <<2, 1, TRUE>>, <<5, 0, TRUE>>,
   <<1, 0, FALSE>>, <<4, 1, FALSE>>, <<2, 0, TRUE>>, <<5, 1, TRUE>>,
   <<0, 1, FALSE>>, <<3, 0, FALSE>>, <<1, 1, TRUE>>, <<4, 0, TRUE>>,
   <<0, 0, FALSE>>, <<3, 1, FALSE>>, <<1, 0, TRUE>>, <<4, 1, TRUE>>,
   <<2, 1, FALSE>>, <<5, 0, FALSE>>, <<3, 1, TRUE>>, <<0, 0, TRUE>>,
   <<2, 0, FALSE>>, <<5, 1, FALSE>>, <<3, 0, TRUE>>, <<0, 1, TRUE>>}

\* p3m1(x, y) takes the `_` arm
p3m1_falls_back(x, y) ==
  LET a == p3m1_area(x, y)
  IN  <<a[1], a[2], a[3]>> \notin p3m1_patterns

\* C26 as stated: some point of [0,1] x [0,1] (the sixth boundaries and the
\* edges are points of the grid) takes the `_` arm of p3m1 and gets
\* (0.0, 0.0).
C26_FallbackReached ==
  call.op = "p3m1" =>
    \E x \in GridPoints, y \in GridPoints :
      p3m1_falls_back(x, y) /\ p3m1(x, y) = <<0, 0>>

\* C26 as amended: no point of [0,1] x [0,1] takes the `_` arm: every
\* application of p3m1 matches one of the explicit patterns, which are all
\* 24 combinations of xarea 0..5, yarea 0..1 and left_half.
C26_NoFallback ==
  /\ call.op = "p3m1" => ~p3m1_falls_back(call.x, call.y)
  /\ p3m1_patterns = (0 .. 5) \X (0 .. 1) \X BOOLEAN

\* p3m1 applied at x = 1 (where floor(6 x) is 6) and at x exactly on the
\* sixth boundary 1/6, with y on the boundary 1/2
C26_Witness ==
  /\ call.op = "p3m1"
  /\ call.x \in {One, One \div 6}
  /\ call.y = Half
  /\ p3m1_area(call.x, call.y)[1] \in {5, 1}

\* ------------------------------------------------------------------------
\* The coordinates the operations of imageop.rs pass to get_pixel and
\* put_pixel, and the indices floyd_steinberg_dither uses in its err array.

imagept_coords_nowrap(img, xn, yn, den) ==
  IF img.width = 0 \/ img.height = 0 THEN {}
  ELSE
    LET x == FRem(xn, img.width * den)
        y == FRem(yn, img.height * den)
        xi == F64AsU32(x \div den)
        xi1 == xi + 1
        yi == F64AsU32(y \div den)
        yi1 == yi + 1
    IN  {<<xi, yi>>, <<xi, yi1>>, <<xi1, yi>>, <<xi1, yi1>>}

\* imagept: the four get_pixel calls (none on an image without pixels)
imagept_coords(img, xn, yn, den) ==
  IF img.width = 0 \/ img.height = 0 THEN {}
  ELSE
    LET x == FRem(xn, img.width * den)
        y == FRem(yn, img.height * den)
        xi == F64AsU32(x \div den)
        xi1 == (xi + 1) % img.width
        yi == F64AsU32(y \div den)
        yi1 == (yi + 1) % img.height
    IN  {<<xi, yi>>, <<xi, yi1>>, <<xi1, yi>>, <<xi1, yi1>>}

\* websafedither: get_pixel(x, y) and put_pixel(x, y) in the loops
websafedither_coords(img) ==
  (0 .. (img.width - 1)) \X (0 .. (img.height - 1))

\* floyd_steinberg_dither: get_pixel(i, j) in the first inner loop,
\* put_pixel(0, j) before and after the second, put_pixel(i, j) in it
floyd_coords(img) ==
  IF img.width = 0 \/ img.height = 0 THEN {}
  ELSE UNION { { <<i, j>> : i \in 0 .. (img.width - 1) }
                 \cup {<<0, j>>}
                 \cup { <<i, j>> : i \in 0 .. (img.width - 2) } :
               j \in 0 .. (img.height - 1) }

\* floyd_steinberg_dither: the indices of err in the two inner loops and in
\* the statements between them; the arrays start at rerr1 = 0, rerr2 = w,
\* gerr1 = 2w, gerr2 = 3w, berr1 = 4w, berr2 = 5w
floyd_err_indices(img) ==
  IF img.width = 0 \/ img.height = 0 THEN {}
  ELSE
    LET w == img.width
    IN  { a + ui : a \in {0, w, 2 * w, 3 * w, 4 * w, 5 * w},
                   ui \in 0 .. (w - 1) }
          \cup {0, 2 * w, 4 * w}
          \cup UNION { {a + ui, a + ui + 1, a + w + ui - 1, a + w + ui,
                        a + w + ui + 1} :
                       a \in {0, 2 * w, 4 * w}, ui \in 0 .. (w - 2) }

\* The length of err: vec![0; (image.width() * 6).try_into().unwrap()]
floyd_err_len(img) == img.width * 6

\* wallpaper_image: put_pixel(x, y) on the new image
wallpaper_image_puts(dest_width, dest_height) ==
  (0 .. (dest_width - 1)) \X (0 .. (dest_height - 1))

\* wallpaper_image: the get_pixel calls its imagept calls make on the source
wallpaper_image_gets(dest_width, dest_height, src_image, source_rect, name) ==
  UNION { imagept_coords(src_image, source_coord(source_rect, p, 1),
                         source_coord(source_rect, p, 2), Unit) :
            p \in { group_func(name, (xy[1] * Unit) \div dest_width,
                               (xy[2] * Unit) \div dest_height) :
                      xy \in wallpaper_image_puts(dest_width, dest_height) } }

\* ------------------------------------------------------------------------
\* Specification SpecAccess: one call of borderedbox, websafedither,
\* floyd_steinberg_dither, imagept or wallpaper_image on an image of 0, 1 or
\* MaxSrcW by 0 or MaxSrcH pixels: on every rectangle of BoxRects with and
\* without wraparound, at every point of SampleCoords (negative ones
\* included), and with each group function.

AccessImages ==
  { img \in SrcImages :
      img.width \in {0, 1, MaxSrcW} /\ img.height \in {0, MaxSrcH} }

\* wallpaper_image, recorded by the calls it makes
WallpaperImageCalls(dest_width, dest_height, source_rect, name) ==
  /\ prev' = image
  /\ image' = image
  /\ call' = [op |-> "wallpaper_image", dest_width |-> dest_width,
              dest_height |-> dest_height, source_rect |-> source_rect,
              group_func |-> name, panicked |-> FALSE,
              puts |-> wallpaper_image_puts(dest_width, dest_height),
              gets |-> wallpaper_image_gets(dest_width, dest_height, image,
                                            source_rect, name)]

InitAccess ==
  /\ image \in AccessImages
  /\ prev = image
  /\ call = [op |-> "none", panicked |-> FALSE]

NextAccess ==
  \/ /\ call.op = "none"
     /\ \E xn \in SampleCoords, yn \in SampleCoords : Imagept(xn, yn)
  \/ /\ call.op = "none"
     /\ \E include_vga \in BOOLEAN : WebsafeDither(include_vga)
  \/ \E palette \in Palettes : FloydSteinbergDither(palette)
  \/ /\ call.op = "none"
     /\ \E border \in BoxBorders, rect \in BoxRects, wraparound \in BOOLEAN :
          Borderedbox(border, rect, wraparound)
  \/ /\ call.op = "none"
     /\ \E dest_width \in DestDims, dest_height \in DestDims,
           source_rect \in SourceRects(image), name \in GroupNames :
          WallpaperImageCalls(dest_width, dest_height, source_rect, name)

SpecAccess == InitAccess /\ [][NextAccess]_vars

\* Every coordinate of S is a pixel of img
InBounds(img, S) ==
  \A p \in S : 0 <= p[1] /\ p[1] < img.width /\ 0 <= p[2] /\ p[2] < img.height

\* C27: every coordinate borderedbox, websafedither, floyd_steinberg_dither,
\* imagept and wallpaper_image pass to get_pixel or put_pixel has
\* 0 <= x < width and 0 <= y < height of the image it is passed for, and
\* every index floyd_steinberg_dither uses in err is in 0 .. 6 * width - 1.
C27_CallsInBounds ==
  /\ call.op = "borderedbox" => InBounds(prev, call.written)
  /\ call.op = "websafedither" => InBounds(prev, websafedither_coords(prev))
  /\ call.op = "floyd_steinberg_dither" =>
       /\ InBounds(prev, floyd_coords(prev))
       /\ floyd_err_indices(prev) \subseteq 0 .. (6 * prev.width - 1)
       /\ floyd_err_indices(prev) \subseteq 0 .. (floyd_err_len(prev) - 1)
  /\ call.op = "imagept" =>
       InBounds(image, imagept_coords(image, call.x, call.y, call.den))
  /\ call.op = "wallpaper_image" =>
       /\ InBounds([width |-> call.dest_width, height |-> call.dest_height],
                   call.puts)
       /\ InBounds(image, call.gets)

\* imagept at a point left of and above the image, whose four get_pixel
\* calls are at the pixels of columns 0 and 1 and rows 0 and 1
C27_Witness ==
  /\ call.op = "imagept"
  /\ call.x < 0
  /\ call.y < 0
  /\ image.width = 2
  /\ image.height = 2
  /\ imagept_coords(image, call.x, call.y, call.den)
       = (0 .. 1) \X (0 .. 1)

\* ------------------------------------------------------------------------
\* random.rs: do_sample_rng, the Fast Dice Roller.  u32 is a word of
\* WordBits bits, so random() * 4294967296.0 as u32 is a word r of
\* 0 .. U32Max and a word of random bits lasts WordBits iterations.

fdr_accepts_next(y, diff) == y <= diff + 1

\* if y<=diff.into() { return ... }
fdr_accepts(y, diff) == y <= diff

\* One iteration of the loop after rngv is refilled: x and y doubled with
\* the low bit of rngv, then reduced when x > diff.  x2 and y2 are x and y
\* after the doubling; low is the least value an unsigned subtraction of
\* the iteration produces (0 when none is made).
fdr_iteration(diff, x, y, rngv) ==
  LET bit == rngv % 2
      x2 == x * 2
      y2 == y * 2 + bit
      max_inc_minus_one == diff - 1
      xa == x2 - max_inc_minus_one
      xb == xa - 2
      ya == y2 - max_inc_minus_one
      yb == ya - 2
  IN  IF x2 > diff
      THEN IF fdr_accepts(y2, diff)
           THEN [returns |-> TRUE, x |-> xb, y |-> y2, x2 |-> x2, y2 |-> y2,
                 rejected |-> FALSE, low |-> IF xa < xb THEN xa ELSE xb]
           ELSE [returns |-> FALSE, x |-> xb, y |-> yb, x2 |-> x2, y2 |-> y2,
                 rejected |-> TRUE,
                 low |-> CHOOSE m \in {xa, xb, ya, yb} :
                           \A n \in {xa, xb, ya, yb} : m <= n]
      ELSE [returns |-> FALSE, x |-> x2, y |-> y2, x2 |-> x2, y2 |-> y2,
            rejected |-> FALSE, low |-> 0]

\* ------------------------------------------------------------------------
\* Specification SpecSampleRng: do_sample_rng on a range whose ends are at
\* most MaxDiff apart, or whose upper end is U32Max, one action for the
\* statements before the loop and one for each iteration of the loop; the
\* word of random bits is any word.

MaxDiff == 6

SampleLows == {0, 1, U32Max - MaxDiff, U32Max}

SampleRanges ==
  { unif \in SampleLows \X (0 .. U32Max) :
      unif[2] <= unif[1] + MaxDiff \/ unif[2] = U32Max }

InitSampleRng ==
  /\ image = NoImage
  /\ prev = NoImage
  /\ call = [op |-> "none", panicked |-> FALSE]

SampleCall(unif, pc, ret, panicked) ==
  [op |-> "do_sample_rng", unif |-> unif, pc |-> pc, ret |-> ret,
   panicked |-> panicked, x |-> 1, y |-> 0, x2 |-> 1, y2 |-> 0,
   next_bit |-> WordBits, rngv |-> 0, low |-> 0, rejected |-> FALSE]

\* The statements before the loop; r is random() * 4294967296.0 as u32
DoSampleRng(unif, r) ==
  /\ call.op = "none"
  /\ IF unif[1] > unif[2]
     THEN r = 0 /\ call' = SampleCall(unif, "panicked", 0, TRUE)
     ELSE IF unif[1] = unif[2]
     THEN r = 0 /\ call' = SampleCall(unif, "returned", unif[1], FALSE)
     ELSE IF unif[2] - unif[1] = U32Max
     THEN call' = SampleCall(unif, "returned",
                             IF unif[1] + r > U32Max THEN U32Max
                             ELSE unif[1] + r, FALSE)
     ELSE r = 0 /\ call' = SampleCall(unif, "loop", 0, FALSE)
  /\ UNCHANGED <<image, prev>>

\* One iteration of the loop; r is the word of random bits drawn when the
\* last one is used up
FdrIteration(r) ==
  /\ call.op = "do_sample_rng"
  /\ call.pc = "loop"
  /\ IF call.next_bit >= WordBits THEN TRUE ELSE r = call.rngv
  /\ LET refill == call.next_bit >= WordBits
         next_bit == IF refill THEN 0 ELSE call.next_bit
         diff == call.unif[2] - call.unif[1]
     IN  \E it \in {fdr_iteration(diff, call.x, call.y, r)} :
           call' = [call EXCEPT
                      !.next_bit = next_bit + 1,
                      !.rngv = r \div 2,
                      !.x = it.x, !.y = it.y, !.x2 = it.x2, !.y2 = it.y2,
                      !.low = it.low,
                      !.rejected = call.rejected \/ it.rejected,
                      !.pc = IF it.returns THEN "returned" ELSE "loop",
                      !.ret = IF it.returns
                              THEN (call.unif[1] + it.y) % U32Modulus
                              ELSE 0]
  /\ UNCHANGED <<image, prev>>

NextSampleRng ==
  \/ /\ call.op = "none"
     /\ \E unif \in SampleRanges, r \in 0 .. U32Max : DoSampleRng(unif, r)
  \/ /\ call.op = "do_sample_rng"
     /\ \E r \in 0 .. U32Max : FdrIteration(r)

SpecSampleRng == InitSampleRng /\ [][NextSampleRng]_vars

\* C28: do_sample_rng([lo, hi]) panics when lo > hi and returns lo when
\* lo = hi; otherwise every value v it returns has lo <= v <= hi; at the
\* start of every iteration of the loop and after x and y are doubled,
\* 0 <= y < x, and no subtraction of x or y goes below 0.
C28_SampleInRange ==
  call.op = "do_sample_rng" =>
    /\ call.unif[1] > call.unif[2] <=> call.panicked
    /\ call.unif[1] = call.unif[2] =>
         call.pc = "returned" /\ call.ret = call.unif[1]
    /\ call.pc = "returned" =>
         call.unif[1] <= call.ret /\ call.ret <= call.unif[2]
    /\ 0 <= call.y2 /\ call.y2 < call.x2
    /\ call.pc = "loop" => 0 <= call.y /\ call.y < call.x
    /\ call.low >= 0

\* A call on a range of six values that rejected a value of y, went on and
\* returned the upper end of the range
C28_Witness ==
  /\ call.op = "do_sample_rng"
  /\ call.unif = <<1, 6>>
  /\ call.pc = "returned"
  /\ call.rejected
  /\ call.ret = 6

\* ------------------------------------------------------------------------
\* websafedither applied again to the image it left (SpecWebsafe applies
\* it any number of times).

\* C29: the image websafedither(image, include_vga) leaves is left as it is
\* by websafedither with the same include_vga, for either value of
\* include_vga: every channel of a web-safe colour is left as it is at
\* every position of the dither matrix, and so is every VGA colour when
\* include_vga is true.
C29_WebsafeIdempotent ==
  call.op = "websafedither" =>
    /\ websafedither(image, call.include_vga) = image
    /\ \A v \in WebSafeLevels, x \in 0 .. (Tile - 1), y \in 0 .. (Tile - 1) :
         websafe_channel(v, bdither_at(x, y)) = v
    /\ \A rc \in VgaColours, x \in 0 .. (Tile - 1), y \in 0 .. (Tile - 1) :
         websafe_pixel(rc, x, y, TRUE) = rc

\* The second application to a ramp: the image before the call is the
\* image after it, all of web-safe colours and of more than one colour
C29_Witness ==
  /\ call.op = "websafedither"
  /\ prev = image
  /\ image.width = Tile
  /\ image.height = Tile
  /\ \A p \in Positions(image) : IsWebSafe(get_pixel(image, p[1], p[2]))
  /\ \E p \in Positions(image) :
       get_pixel(image, p[1], p[2]) # get_pixel(image, 0, 0)

\* ------------------------------------------------------------------------
\* writers.rs: pcx_encode_byte and pcx_encode_line.  The file is the
\* sequence of bytes written to it.

pcx_encode_byte_literal(file, b, c) ==
  IF c > 0
  THEN IF c = 1 THEN Append(file, b)
       ELSE file \o <<192 + (c % 64), b>>
  ELSE file

\* (b & 0xC0) != 0xC0 is b < 192, and c | 0xc0 is 192 + c % 64
pcx_encode_byte(file, b, c) ==
  IF c > 0
  THEN IF c = 1 /\ b < 192 THEN Append(file, b)
       ELSE file \o <<192 + (c % 64), b>>
  ELSE file

\* One iteration of the loop of pcx_encode_line; st holds the file written
\* so far, runcount and last
pcx_encode_step(st, this_value) ==
  IF this_value = st.last
  THEN IF st.runcount + 1 = 63
       THEN [file |-> pcx_encode_byte(st.file, st.last, st.runcount + 1),
             runcount |-> 0, last |-> st.last]
       ELSE [st EXCEPT !.runcount = st.runcount + 1]
  ELSE [file |-> IF st.runcount > 0
                 THEN pcx_encode_byte(st.file, st.last, st.runcount)
                 ELSE st.file,
        runcount |-> 1, last |-> this_value]

\* The iterations of the loop for vec[lo] .. vec[hi] (1-based), in order:
\* those of the first half of the range, then those of the second half
\* from the state the first half leaves (bound once)
RECURSIVE pcx_encode_loop(_, _, _, _)
pcx_encode_loop(vec, lo, hi, st) ==
  IF lo > hi THEN st
  ELSE IF lo = hi THEN pcx_encode_step(st, vec[lo])
  ELSE CHOOSE after \in
         { pcx_encode_loop(vec, (lo + hi) \div 2 + 1, hi, half) :
             half \in {pcx_encode_loop(vec, lo, (lo + hi) \div 2, st)} } : TRUE

\* vec.iter().skip(1) is vec[2] .. vec[Len(vec)]
pcx_encode_line(file, vec) ==
  IF vec = <<>> THEN file
  ELSE CHOOSE written \in
         { IF st.runcount > 0
           THEN pcx_encode_byte(st.file, st.last, st.runcount)
           ELSE st.file :
             st \in {pcx_encode_loop(vec, 2, Len(vec),
                                     [file |-> file, runcount |-> 1,
                                      last |-> vec[1]])} } : TRUE

\* ------------------------------------------------------------------------
\* Specification SpecPcx: pcx_encode_line on a line of up to MaxRuns runs,
\* each of 1, 2, 62, 63, 64 or 65 bytes of one of the values 0, 191, 192
\* and 255 (equal neighbouring runs make one longer run), written
\* to an empty file.

MaxRuns == 2

RunLengths == {1, 2, 62, 63, 64, 65}

RunValues == {0, 191, 192, 255}

\* The line of the given runs <<value, length>>
RECURSIVE LineOf(_)
LineOf(runs) ==
  IF runs = <<>> THEN <<>>
  ELSE [k \in 1 .. runs[1][2] |-> runs[1][1]] \o LineOf(Tail(runs))

PcxLines ==
  { LineOf(runs) :
      runs \in UNION { [1 .. n -> RunValues \X RunLengths] : n \in 0 .. MaxRuns } }

InitPcx ==
  /\ image = NoImage
  /\ prev = NoImage
  /\ call = [op |-> "none", panicked |-> FALSE]

PcxEncodeLine(vec) ==
  /\ call.op = "none"
  /\ call' = [op |-> "pcx_encode_line", vec |-> vec, panicked |-> FALSE,
              file |-> pcx_encode_line(<<>>, vec)]
  /\ UNCHANGED <<image, prev>>

NextPcx ==
  /\ call.op = "none"
  /\ \E vec \in PcxLines : PcxEncodeLine(vec)

SpecPcx == InitPcx /\ [][NextPcx]_vars

\* The PCX run-length rule: the items <<count, value>> of the bytes from
\* position i on; a byte of 192 or more is a count in its low 6 bits and is
\* followed by the value, any other byte is one literal value.  A count
\* with no value after it is the item <<0, -1>>.
RECURSIVE PcxItems(_, _)
PcxItems(file, i) ==
  IF i > Len(file) THEN <<>>
  ELSE IF file[i] >= 192
  THEN IF i + 1 > Len(file) THEN <<<<0, -1>>>>
       ELSE <<<<file[i] % 64, file[i + 1]>>>> \o PcxItems(file, i + 2)
  ELSE <<<<1, file[i]>>>> \o PcxItems(file, i + 1)

\* The bytes the items stand for
RECURSIVE PcxDecoded(_)
PcxDecoded(items) ==
  IF items = <<>> THEN <<>>
  ELSE [k \in 1 .. items[1][1] |-> items[1][2]] \o PcxDecoded(Tail(items))

\* C30: decoding the bytes pcx_encode_line writes for a line with the PCX
\* run-length rule gives the line back, and every run count written is
\* between 1 and 63.
C30_PcxRoundTrip ==
  call.op = "pcx_encode_line" =>
    LET items == PcxItems(call.file, 1)
    IN  /\ PcxDecoded(items) = call.vec
        /\ \A k \in 1 .. Len(items) : 1 <= items[k][1] /\ items[k][1] <= 63

\* A line of 65 bytes of 192 and one byte of 255: a full run of 63, a run
\* of 2 and a literal of 0xC0 or more, written as a run of 1
C30_Witness ==
  /\ call.op = "pcx_encode_line"
  /\ call.vec = LineOf(<<<<192, 65>>, <<255, 1>>>>)
  /\ call.file = <<255, 192, 194, 192, 193, 255>>
====
